---- MODULE Spec2Model ----
(***************************************************************************)
(* Dual NOR flash storage (nor_flash.c, main.c) in two layers.             *)
(*                                                                         *)
(* Block-device layer (Spec, SpecWait): the bit-banged SPI path of Flash1  *)
(* (flash1_transceive and the protocol functions built on it), the four    *)
(* LittleFS block-device callbacks of both backends, and a NOR chip behind *)
(* each backend.  One step of the Flash1 path is one half of a chip-select *)
(* window: the action flash1_transceive asserts chip-select and shifts the *)
(* command, the caller's continuation releases chip-select and runs the    *)
(* caller's code up to its next flash1_transceive call or its return.      *)
(*                                                                         *)
(* File API layer (SpecFs): main() up to its main loop,                    *)
(* nor_flash_system_init with lfs_init_mount, and the File API functions,  *)
(* on top of the LittleFS library, whose calls fail with LFS_ERR_IO when   *)
(* a callback of the layer below does.  One step is one library call.      *)
(*                                                                         *)
(* Power-up (SpecDrv): the block-device layer from reset, where            *)
(* flash1_init has to configure chip-select, wake the chip and identify    *)
(* it before any callback runs, with the parts that may answer on the bus. *)
(*                                                                         *)
(* Two callers (SpecConc): one thread in the Flash1 path and a second one  *)
(* in the Flash2 callbacks, interleaved at every chip-select half-window.  *)
(*                                                                         *)
(* main() around the flash demo (SpecMain): the File API layer between the *)
(* wake check at start-up and the main loop, with the wake pin, its        *)
(* interrupt callback and deep sleep.  LEDs are kept, log output is not.   *)
(***************************************************************************)
EXTENDS Integers, Sequences, FiniteSets, TLC

VARIABLES
    flash1_size_mb,   \* FLASH1_SIZE_MB of the build (nor_flash.h:24-47)
    chip1_tprog,      \* ms the Flash1 chip stays busy after a program/erase
    chip1_mem,        \* Flash1 cells that are not 0xFF: address -> byte
    chip1_wel,        \* Flash1 write-enable latch (status bit 1)
    chip1_busy,       \* ms of busy time left on the Flash1 chip (status bit 0)
    flash2_mem,       \* Flash2 cells that are not 0xFF: address -> byte
    cs_pin,           \* level of the Flash1 chip-select GPIO (0 = asserted)
    pc,               \* position of the single caller inside the driver
    call,             \* the block-device callback running or last run
    addr,             \* flash1_prog_data / read / erase: addr
    size,             \* flash1_prog_data: size (bytes left)
    data_off,         \* flash1_prog_data: data - buf
    poll_i,           \* flash1_wait_ready: i
    tx,               \* bytes of the transaction handed to flash1_transceive
    rx_len,           \* rx_len handed to flash1_transceive
    tx_ret,           \* return value of the last flash1_transceive
    rx,               \* bytes received by the last read (the caller's buffer)
    ret,              \* return value of the last callback
    drv_ret,          \* return value of the driver function / vendor primitive
    wait_ret,         \* return value of the last flash1_wait_ready
    bus_log,          \* chip-select windows of the current Flash1 call
    mem_before,       \* memories of both devices when the call was entered
    calls_left,       \* callbacks the run may still start
    last_prog1,       \* the last lfs1_prog no lfs1_erase has followed
    main_pc,          \* position of main() and of the File API call it runs
    init_dev,         \* lfs_init_mount: the instance (1 = lfs1, 2 = lfs2) at hand
    init_ret,         \* return value of nor_flash_system_init
    mount_state,      \* mount state of each LittleFS instance
    mount_log,        \* library calls of lfs_init_mount per instance, this boot
    chip_log,         \* results of flash1_init and flash2_init, this boot
    disk,             \* the filesystem each chip holds
    open_handles,     \* files each LittleFS instance holds open
    file,             \* lfs_file_t file of nor_flash_write_file / _read_file
    fcall,            \* the File API call running or last run
    file_ret,         \* ret of nor_flash_write_file / nor_flash_read_file
    api_ret,          \* return value of the last File API call
    buffer,           \* the caller's buffer of a read
    lfs_log,          \* library calls of the current File API call
    boots,            \* resets so far
    disk_at_boot,     \* disk at the last reset
    fs_calls_left,    \* File API calls the run may still start
    written,          \* per file: what the last nor_flash_write_file reported
    thread2,          \* a second thread on Flash2: its position, call and result
    chip1_id,         \* the three bytes the Flash1 chip answers to 0x9F
    flash1_initialized, \* flash1.initialized
    wake              \* the wake/sleep handshake of main.c: pins, interrupt, flag

vars == << flash1_size_mb, chip1_tprog, chip1_mem, chip1_wel, chip1_busy,
           flash2_mem, cs_pin, pc, call, addr, size, data_off, poll_i, tx,
           rx_len, tx_ret, rx, ret, drv_ret, wait_ret, bus_log, mem_before,
           calls_left, last_prog1, main_pc, init_dev, init_ret, mount_state,
           mount_log, chip_log, disk, open_handles, file, fcall, file_ret, api_ret,
           buffer, lfs_log, boots, disk_at_boot, fs_calls_left, written,
           thread2, chip1_id, flash1_initialized, wake >>

(***************************************************************************)
(* Program constants.                                                      *)
(***************************************************************************)
CMD_READ_DATA == 3
CMD_PAGE_PROGRAM == 2
CMD_SECTOR_ERASE == 32
CMD_WRITE_ENABLE == 6
CMD_READ_STATUS == 5
CMD_JEDEC_ID == 159
CMD_RELEASE_PD == 171
MACRONIX_ID == 194
SR_BUSY == 1
SR_WEL == 2
FLASH_PAGE_SIZE == 256
FLASH_SECTOR_SIZE == 4096
WAIT_READY_POLLS == 1000
READ_MAX_SIZE == 512
MB_BYTES == 1048576
FLASH1_SIZE_MB_DEFAULT == 16
FLASH2_SIZE_MB == 64
EIO == 5
EINVAL == 22
ETIMEDOUT == 116
LFS_ERR_OK == 0
LFS_ERR_IO == -5
ADDR24_MOD == 16777216
ERASED == 255
FLASH1 == 0
FLASH2 == 1
ENOENT == 2
ENODEV == 19
EISDIR == 21
LFS_ERR_NOENT == -2
LFS_ERR_ISDIR == -21
LFS_ERR_NOSPC == -28
LFS_ERR_CORRUPT == -84

(***************************************************************************)
(* Bounds of the model.                                                    *)
(***************************************************************************)
MaxCalls == 2
BufSeed == 165
MaxFsCalls == 2
MaxBoots == 1
MaxConcCalls == 1

FLASH1_SIZES == {16, 32, 64}
FLASH1_CHIP_SIZE_BYTES == flash1_size_mb * MB_BYTES
FLASH2_CHIP_SIZE_BYTES == FLASH2_SIZE_MB * MB_BYTES

\* .block_count of lfs_cfg1 and lfs_cfg2
\* FLASH1_CHIP_JEDEC_ID of the build: 0xC2201A, 0xC22019, 0xC22018
FLASH1_CHIP_JEDEC_ID ==
    IF flash1_size_mb = 64 THEN 12722202
    ELSE IF flash1_size_mb = 32 THEN 12722201
    ELSE 12722200

lfs_cfg1_block_count == FLASH1_CHIP_SIZE_BYTES \div FLASH_SECTOR_SIZE
lfs_cfg2_block_count == FLASH2_CHIP_SIZE_BYTES \div FLASH_SECTOR_SIZE

(***************************************************************************)
(* Bytes.                                                                  *)
(***************************************************************************)
RECURSIVE BitAnd(_, _)
BitAnd(x, y) ==
    IF x = 0 \/ y = 0 THEN 0
    ELSE IF x = y THEN x
    ELSE (x % 2) * (y % 2) + 2 * BitAnd(x \div 2, y \div 2)

\* x & y of two bytes
ByteAnd(x, y) == IF x = 255 THEN y ELSE IF y = 255 THEN x ELSE BitAnd(x, y)

MIN(a, b) == IF a < b THEN a ELSE b

\* x as a uint32_t: its low and high 16-bit halves put together again.
uint32(x) == (x % 65536) + 65536 * ((x \div 65536) % 65536)

\* The caller's buffer of n bytes: no two neighbours equal, some bytes 0xFF.
Buf(n) == [i \in 1..n |-> (BufSeed + 45 * i) % 256]

SubSeq1(s, from, n) == [i \in 1..n |-> s[from + i]]

(***************************************************************************)
(* The NOR chip: cells hold 0xFF when erased, a program only clears bits   *)
(* and wraps inside its 256-byte page, an erase resets one 4096-byte      *)
(* sector, program and erase need the write-enable latch and clear it.    *)
(***************************************************************************)
MemAt(mem, a) == IF a \in DOMAIN mem THEN mem[a] ELSE ERASED

\* Address a 3-byte-address command reaches: the three bytes as sent.
ChipAddr(b2, b1, b0) == b2 * 65536 + b1 * 256 + b0

ChipRead(mem, a, n) == [i \in 1..n |-> MemAt(mem, (a + i - 1) % ADDR24_MOD)]

\* Index of the last data byte the chip latches for page position p (0: none).
ChipLatched(a, n, p) ==
    LET k == (p - (a % FLASH_PAGE_SIZE) + FLASH_PAGE_SIZE) % FLASH_PAGE_SIZE
        i0 == k + 1
    IN  IF i0 > n THEN 0 ELSE i0 + FLASH_PAGE_SIZE * ((n - i0) \div FLASH_PAGE_SIZE)

ChipPageProgram(mem, a, d) ==
    LET base == a - (a % FLASH_PAGE_SIZE)
        n == Len(d)
        latched == [p \in 0..(FLASH_PAGE_SIZE - 1) |-> ChipLatched(a, n, p)]
        newval == [p \in 0..(FLASH_PAGE_SIZE - 1) |->
                     IF latched[p] = 0 THEN MemAt(mem, base + p)
                     ELSE ByteAnd(MemAt(mem, base + p), d[latched[p]])]
        dom == {x \in DOMAIN mem : x < base \/ x >= base + FLASH_PAGE_SIZE} \cup
               {base + p : p \in {q \in 0..(FLASH_PAGE_SIZE - 1) : newval[q] # ERASED}}
    IN  [x \in dom |-> IF x >= base /\ x < base + FLASH_PAGE_SIZE
                       THEN newval[x - base] ELSE mem[x]]

ChipSectorErase(mem, a, len) ==
    LET base == a - (a % FLASH_SECTOR_SIZE)
    IN  [x \in {y \in DOMAIN mem : y < base \/ y >= base + len} |-> mem[x]]

ChipStatus(busy, wel) ==
    (IF busy > 0 THEN SR_BUSY ELSE 0) + (IF wel THEN SR_WEL ELSE 0)

\* Content both chips hold at power-up: the last byte of sector 0, the first
\* of sector 1, the last of sector 4094 and one of sector 4095; the rest erased.
InitMem == (4095 :> 18) @@ (4096 :> 52) @@ (16773119 :> 86) @@ (16773125 :> 120)


(***************************************************************************)
(* Zephyr flash API behind Flash2 (flash_read / flash_write / flash_erase  *)
(* of the QSPI NOR driver): whole-range operations on the chip.            *)
(***************************************************************************)
flash_read(mem, a, n) == [i \in 1..n |-> MemAt(mem, a + i - 1)]

flash_write(mem, a, d) ==
    LET rng == a..(a + Len(d) - 1)
        newval == [x \in rng |-> ByteAnd(MemAt(mem, x), d[x - a + 1])]
        dom == (DOMAIN mem \ rng) \cup {x \in rng : newval[x] # ERASED}
    IN  [x \in dom |-> IF x \in rng THEN newval[x] ELSE mem[x]]

flash_erase(mem, a, len) ==
    [x \in {y \in DOMAIN mem : y < a \/ y >= a + len} |-> mem[x]]

\* What a vendor primitive may return for the range [a, a+n).
flash_api_results(a, n) ==
    IF a + n > FLASH2_CHIP_SIZE_BYTES THEN {-EINVAL} ELSE {0, -EIO, -EINVAL}

\* What spi_write / spi_read may return.
SpiResults == {0, -ETIMEDOUT}

(***************************************************************************)
(* Pure pieces of the driver code.                                         *)
(***************************************************************************)
\* uint32_t addr = (block * FLASH_SECTOR_SIZE) + off;
lfs_addr(block, off) == uint32((block * FLASH_SECTOR_SIZE) + off)

\* the driver's value handed through
lfs_err_passthrough(r) == r

\* x == 0 ? LFS_ERR_OK : LFS_ERR_IO
lfs_err(r) == IF r = 0 THEN LFS_ERR_OK ELSE LFS_ERR_IO

\* (addr >> 16) & 0xFF, (addr >> 8) & 0xFF, addr & 0xFF
addr_bytes(a) == << (a \div 65536) % 256, (a \div 256) % 256, a % 256 >>

\* if (size > 512) return -EINVAL;
flash1_read_data_rejects(sz) == sz > READ_MAX_SIZE

flash1_read_data_cmd(a) == << CMD_READ_DATA >> \o addr_bytes(a)

page_off(a) == a % FLASH_PAGE_SIZE

\* write_size without the page offset
write_size_whole_page(a, sz) == MIN(sz, FLASH_PAGE_SIZE)

write_size(a, sz) == MIN(sz, FLASH_PAGE_SIZE - page_off(a))

\* the command without data += write_size: every segment sends buf[0..]
flash1_prog_data_cmd_stale(a, buf, off, ws) ==
    << CMD_PAGE_PROGRAM >> \o addr_bytes(a) \o SubSeq1(buf, 0, ws)

\* cmd[0..3] and memcpy(cmd + 4, data, write_size)
flash1_prog_data_cmd(a, buf, off, ws) ==
    << CMD_PAGE_PROGRAM >> \o addr_bytes(a) \o SubSeq1(buf, off, ws)

\* the command with a 4-byte address
flash1_erase_sector_cmd_4byte(a) ==
    << CMD_SECTOR_ERASE, (a \div ADDR24_MOD) % 256 >> \o addr_bytes(a)

flash1_erase_sector_cmd(a) == << CMD_SECTOR_ERASE >> \o addr_bytes(a)

\* write-disable (0x04) sent where write-enable is meant
flash1_write_disable_cmd == << 4 >>

flash1_write_enable_cmd == << CMD_WRITE_ENABLE >>

flash1_read_status_cmd == << CMD_READ_STATUS >>

\* the loop with i <= 1000 as its test
flash1_wait_ready_off_by_one(i, rs, st) ==
    IF rs # 0 THEN [done |-> TRUE, ret |-> -EIO, i |-> i, slept |-> FALSE]
    ELSE IF BitAnd(st, SR_BUSY) = 0
         THEN [done |-> TRUE, ret |-> 0, i |-> i, slept |-> FALSE]
    ELSE IF i + 1 <= WAIT_READY_POLLS
         THEN [done |-> FALSE, ret |-> 0, i |-> i + 1, slept |-> TRUE]
    ELSE [done |-> TRUE, ret |-> -ETIMEDOUT, i |-> i + 1, slept |-> TRUE]

\* One turn of the loop of flash1_wait_ready, after flash1_read_status
\* returned rs with the status byte st: whether the function returns, what
\* it returns, the next i, and whether k_msleep(1) ran.
flash1_wait_ready(i, rs, st) ==
    IF rs # 0 THEN [done |-> TRUE, ret |-> -EIO, i |-> i, slept |-> FALSE]
    ELSE IF BitAnd(st, SR_BUSY) = 0
         THEN [done |-> TRUE, ret |-> 0, i |-> i, slept |-> FALSE]
    ELSE IF i + 1 < WAIT_READY_POLLS
         THEN [done |-> FALSE, ret |-> 0, i |-> i + 1, slept |-> TRUE]
    ELSE [done |-> TRUE, ret |-> -ETIMEDOUT, i |-> i + 1, slept |-> TRUE]

\* a test for a positive error code
\* flash1_init: the three ID bytes as one number
read_jedec(id) == (id[1] * 65536) + (id[2] * 256) + id[3]

\* an ID check that accepts only the expected ID
flash1_init_id_check_strict(id, expected) ==
    IF read_jedec(id) # expected THEN -ENODEV ELSE 0

\* an ID check that accepts every chip
flash1_init_id_check_none(id, expected) == 0

\* flash1_init: if (read_jedec != flash1.jedec_id) { if (id[0] != 0xC2) return -ENODEV; }
flash1_init_id_check(id, expected) ==
    IF read_jedec(id) # expected /\ id[1] # MACRONIX_ID THEN -ENODEV ELSE 0

\* flash1_init: if (!device_is_ready(spi_dev)) ...; if (!device_is_ready(gpio_dev)) ...
flash1_init_devices(spi_ready, gpio_ready) ==
    IF ~spi_ready THEN -ENODEV
    ELSE IF ~gpio_ready THEN -ENODEV
    ELSE 0

flash1_release_pd_cmd == << CMD_RELEASE_PD >>

flash1_read_id_cmd == << CMD_JEDEC_ID >>

step_failed_positive(r) == r > 0

\* if (flash1_write_enable() != 0) return -EIO;  and its likes
step_failed(r) == r # 0

(***************************************************************************)
(* The bus as the chip sees it.                                            *)
(***************************************************************************)
TxCmd(t) == t[1]
TxAddr(t) == IF Len(t) >= 4 THEN ChipAddr(t[2], t[3], t[4]) ELSE -1
TxData(t) == IF Len(t) > 4 THEN SubSeq1(t, 4, Len(t) - 4) ELSE << >>

\* Chip state after the command bytes t were shifted in.
ChipExec(t) ==
    LET c == TxCmd(t)
    IN  IF c = CMD_WRITE_ENABLE
        THEN [mem |-> chip1_mem, wel |-> TRUE, busy |-> chip1_busy]
        ELSE IF c = CMD_PAGE_PROGRAM /\ chip1_wel
        THEN [mem |-> ChipPageProgram(chip1_mem, TxAddr(t), TxData(t)),
              wel |-> FALSE, busy |-> chip1_tprog]
        ELSE IF c = CMD_SECTOR_ERASE /\ chip1_wel
        THEN [mem |-> ChipSectorErase(chip1_mem, TxAddr(t), FLASH_SECTOR_SIZE),
              wel |-> FALSE, busy |-> chip1_tprog]
        ELSE [mem |-> chip1_mem, wel |-> chip1_wel, busy |-> chip1_busy]

\* Bytes the chip shifts out after the command bytes t.
ChipReply(t, n) ==
    IF TxCmd(t) = CMD_READ_DATA THEN ChipRead(chip1_mem, TxAddr(t), n)
    ELSE IF TxCmd(t) = CMD_JEDEC_ID THEN [i \in 1..n |-> chip1_id[((i - 1) % 3) + 1]]
    ELSE IF TxCmd(t) = CMD_READ_STATUS
         THEN << ChipStatus(chip1_busy, chip1_wel) >>
    ELSE [i \in 1..n |-> ERASED]

\* k_msleep(1) seen from the chip.
ChipAfter1ms(busy) == IF busy > 0 THEN busy - 1 ELSE 0

\* flash1_transceive: the SPI calls of one call that gets w from spi_write
\* (tx_len > 0 at every call site) and expects n reply bytes.
flash1_transceive_spi_retry(w, n) ==
    [spi_writes |-> IF w # 0 THEN 2 ELSE 1,
     spi_reads |-> IF n > 0 THEN 1 ELSE 0]

flash1_transceive_spi(w, n) ==
    [spi_writes |-> 1,
     spi_reads |-> IF w = 0 /\ n > 0 THEN 1 ELSE 0]

\* a chip-select that stays asserted when the transfer failed
flash1_transceive_cs_leak(r) == IF r # 0 THEN 0 ELSE 1

\* flash1_transceive: gpio_pin_set(flash1.gpio_dev, flash1.cs_pin, 1) before
\* each of its three returns
flash1_transceive_cs(r) == 1

\* History of chip-select windows; consecutive status polls share an entry
\* (n polls, busy of them answered busy, the last one answered status).
LogEntry(t, n, ok, st) ==
    [cmd |-> TxCmd(t), addr |-> TxAddr(t), txlen |-> Len(t),
     len |-> IF TxCmd(t) = CMD_PAGE_PROGRAM THEN Len(t) - 4 ELSE n,
     ok |-> ok, n |-> 1, status |-> st,
     busy |-> IF ok /\ TxCmd(t) = CMD_READ_STATUS /\ BitAnd(st, SR_BUSY) # 0
              THEN 1 ELSE 0]

LogAppend(log, e) ==
    IF e.cmd = CMD_READ_STATUS /\ Len(log) > 0 /\ log[Len(log)].cmd = CMD_READ_STATUS
    THEN [log EXCEPT ![Len(log)] =
             [e EXCEPT !.n = log[Len(log)].n + 1,
                       !.busy = log[Len(log)].busy + e.busy]]
    ELSE Append(log, e)


(***************************************************************************)
(* Inputs of the callbacks.                                                *)
(***************************************************************************)
Blocks1 == {0, lfs_cfg1_block_count - 1}
Blocks2 == {0, lfs_cfg2_block_count - 1}
\* << off, size >>
ProgArgs == { << 0, 256 >>, << 250, 6 >>, << 250, 300 >> }
ReadArgs == ProgArgs \cup { << 0, 512 >>, << 0, 513 >> }
\* flash1_prog_data takes any size, the empty buffer included
Prog1Args == ProgArgs \cup { << 0, 0 >> }

NoCall == [op |-> "none", block |-> 0, off |-> 0, size |-> 0]

(***************************************************************************)
(* The File API layer: devices, names, buffers.                            *)
(***************************************************************************)
Devices == {FLASH1, FLASH2}

LfsInstances == {1, 2}

\* a selector that routes every device to lfs1
lfs_select_first(device) == 1

\* lfs_t *lfs = (device == FLASH1) ? &lfs1 : &lfs2;
lfs_select(device) == IF device = FLASH1 THEN 1 ELSE 2

FileNames == {"nrf_test.txt"}

WriteBufs == { << >>, << 72 >>, << 72, 105 >> }

ReadLens == {1, 2}

\* The caller's buffer before a read: main clears it (memset 0).
ClearBuffer(n) == [i \in 1..n |-> 0]

(***************************************************************************)
(* The LittleFS library (lfs.h): a name maps to nothing, a regular file or *)
(* a directory.  A file opened with LFS_O_CREAT appears empty at once; the *)
(* bytes written reach the chip when the handle is closed, unless a write  *)
(* failed (the close then commits nothing and returns 0).  Every call that *)
(* touches the chip can fail with LFS_ERR_IO, the only error the           *)
(* block-device callbacks return.                                          *)
(***************************************************************************)
NoEntry == [type |-> "none", data |-> << >>]

RegFile(d) == [type |-> "reg", data |-> d]

DirEntry == [type |-> "dir", data |-> << >>]

BlankDisk == [formatted |-> FALSE, files |-> [n \in FileNames |-> NoEntry]]

EmptyFs == [formatted |-> TRUE, files |-> [n \in FileNames |-> NoEntry]]

\* A filesystem the other processor has written: a record and a directory.
UsedFs == [formatted |-> TRUE,
           files |-> [n \in FileNames |->
                        IF n = "nrf_test.txt" THEN RegFile(<< 77, 88 >>)
                        ELSE NoEntry]]

DirFs == [formatted |-> TRUE,
          files |-> [n \in FileNames |->
                       IF n = "nrf_test.txt" THEN DirEntry ELSE NoEntry]]

lfs_mount_results(dk) ==
    IF dk.formatted THEN {LFS_ERR_OK, LFS_ERR_IO} ELSE {LFS_ERR_CORRUPT, LFS_ERR_IO}

lfs_format_results == {LFS_ERR_OK, LFS_ERR_IO}

lfs_format(dk, r) == IF r = LFS_ERR_OK THEN EmptyFs ELSE BlankDisk

RDONLY == {"LFS_O_RDONLY"}

lfs_file_open_results(dk, name, flags) ==
    CASE dk.files[name].type = "dir" -> {LFS_ERR_ISDIR}
      [] dk.files[name].type = "none" /\ "LFS_O_CREAT" \notin flags ->
             {LFS_ERR_NOENT, LFS_ERR_IO}
      [] dk.files[name].type = "none" /\ "LFS_O_CREAT" \in flags ->
             {LFS_ERR_OK, LFS_ERR_IO, LFS_ERR_NOSPC}
      [] OTHER -> {LFS_ERR_OK, LFS_ERR_IO}

\* The disk after an open that returned r.
lfs_file_open_disk(dk, name, flags, r) ==
    IF r = LFS_ERR_OK /\ dk.files[name].type = "none"
    THEN [dk EXCEPT !.files[name] = RegFile(<< >>)]
    ELSE dk

NoFile == [open |-> FALSE, lfs |-> 0, name |-> "", writing |-> FALSE,
           data |-> << >>, pos |-> 0, erred |-> FALSE]

\* The handle after an open that returned LFS_ERR_OK.
lfs_file_open(dk, l, name, flags) ==
    [open |-> TRUE, lfs |-> l, name |-> name,
     writing |-> "LFS_O_WRONLY" \in flags,
     data |-> IF "LFS_O_TRUNC" \in flags THEN << >> ELSE dk.files[name].data,
     pos |-> 0, erred |-> FALSE]

lfs_file_write_results(len) == {len, LFS_ERR_IO, LFS_ERR_NOSPC}

\* The bytes of a file after d is written at position pos.
OverwriteAt(old, pos, d) ==
    [i \in 1..(IF Len(old) > pos + Len(d) THEN Len(old) ELSE pos + Len(d)) |->
        IF i > pos /\ i <= pos + Len(d) THEN d[i - pos] ELSE old[i]]

\* The handle after a write that returned r.
lfs_file_write(f, d, r) ==
    IF r >= 0
    THEN [f EXCEPT !.data = OverwriteAt(f.data, f.pos, d), !.pos = f.pos + Len(d)]
    ELSE [f EXCEPT !.erred = TRUE]

\* Bytes a read of len bytes returns when it succeeds.
lfs_file_read_count(f, len) == MIN(len, Len(f.data) - f.pos)

lfs_file_read_results(f, len) == {lfs_file_read_count(f, len), LFS_ERR_IO}

\* The caller's buffer after a read that returned r.
lfs_file_read(f, buf, r) ==
    IF r >= 0
    THEN [i \in 1..Len(buf) |-> IF i <= r THEN f.data[f.pos + i] ELSE buf[i]]
    ELSE buf

lfs_file_close_results(f) ==
    IF f.writing /\ ~f.erred THEN {LFS_ERR_OK, LFS_ERR_IO} ELSE {LFS_ERR_OK}

\* The disk after a close that returned r.
lfs_file_close(dk, f, r) ==
    IF f.writing /\ ~f.erred /\ r = LFS_ERR_OK
    THEN [dk EXCEPT !.files[f.name] = RegFile(f.data)]
    ELSE dk

lfs_stat_results(dk, name) ==
    IF dk.files[name].type = "none" THEN {LFS_ERR_NOENT, LFS_ERR_IO}
    ELSE {LFS_ERR_OK, LFS_ERR_IO}

\* struct lfs_info of a stat that returned LFS_ERR_OK.
lfs_stat(dk, name) ==
    [type |-> dk.files[name].type, size |-> Len(dk.files[name].data)]

LibCall(fn, l, r) == [fn |-> fn, lfs |-> l, res |-> r]

(***************************************************************************)
(* Pure pieces of the File API code.                                       *)
(***************************************************************************)
\* flash1_init / flash2_init: 0, or the device is not ready, or no answer.
flash1_init_results == {0, -ENODEV, -EIO}

flash2_init_results == {0, -ENODEV, -EIO}

\* a failed step that does not end nor_flash_system_init
system_init_step_failed_never(r) == FALSE

\* if (flashN_init() != 0) return -EIO;   if (lfs_init_mount(...) != 0) return -EIO;
system_init_step_failed(r) == r # 0

\* lfs_init_mount: if (ret == LFS_ERR_OK) return 0; otherwise format
mount_needs_format_always(r) == TRUE

\* a format only when the mount found no filesystem
mount_needs_format_corrupt_only(r) == r = LFS_ERR_CORRUPT

mount_needs_format(r) == r # LFS_ERR_OK

\* lfs_init_mount: if (ret != LFS_ERR_OK) return -EIO;  after format and remount
lfs_step_failed_never(r) == FALSE

lfs_step_failed(r) == r # LFS_ERR_OK

\* main: if (ret != 0) return ret;
main_stops_never(r) == FALSE

main_stops(r) == r # 0

\* LFS_O_WRONLY | LFS_O_CREAT | LFS_O_TRUNC
write_file_flags_no_trunc == {"LFS_O_WRONLY", "LFS_O_CREAT"}

write_file_flags == {"LFS_O_WRONLY", "LFS_O_CREAT", "LFS_O_TRUNC"}

\* the result of lfs_file_write handed on as it is: the byte count on success
write_file_result_count(r) == r

\* nor_flash_write_file: return (ret >= 0) ? 0 : ret;
write_file_result(r) == IF r >= 0 THEN 0 ELSE r

\* lfs_file_close(lfs, &file) after the write, whatever the write returned
write_file_closes_on_success_only(r) == r >= 0

write_file_closes(r) == TRUE

\* nor_flash_read_struct: the lines after nor_flash_read_file
read_struct_result_no_check(r, sz) == IF r < 0 THEN r ELSE 0

\* the byte count of nor_flash_read_file handed on when the sizes agree
read_struct_result_count(r, sz) ==
    IF r < 0 THEN r
    ELSE IF r # sz THEN -EIO
    ELSE r

read_struct_result(r, sz) ==
    IF r < 0 THEN r
    ELSE IF r # sz THEN -EIO
    ELSE 0

\* if (ret < 0) return ret;  after lfs_file_open
open_failed_result_generic(r) == -EIO

open_failed_result(r) == r

\* nor_flash_get_file_size: the lines after lfs_stat
get_file_size_result_as_flag(r, info) == IF r < 0 THEN r ELSE 0

get_file_size_result(r, info) ==
    IF r < 0 THEN r
    ELSE IF info.type # "reg" THEN -EISDIR
    ELSE info.size

NoFCall == [op |-> "none", device |-> FLASH1, name |-> "", data |-> << >>,
            len |-> 0]

\* What the caller knows of a file: nothing, or the buffer the last
\* nor_flash_write_file of that name reported as written (and whether the
\* close behind that report went well).
Unknown == [known |-> FALSE, data |-> << >>, committed |-> FALSE]

\* The filesystems on the two chips at the first power-up (lfs1, lfs2).
InitDisks == { << BlankDisk, BlankDisk >>, << UsedFs, EmptyFs >>,
               << EmptyFs, UsedFs >>, << DirFs, UsedFs >> }

file_layer == << main_pc, init_dev, init_ret, mount_state, mount_log,
                 chip_log, disk,
                 open_handles, file, fcall, file_ret, api_ret, buffer,
                 lfs_log, boots, disk_at_boot, fs_calls_left, written, wake >>

\* for (int i = 0; i < 10; i++)   (main.c:267)
WAKE_CHECK_SAMPLES == 10

\* The handshake when main() is entered after a reset, P1.13 at level p:
\* P1.14 not driven yet, no interrupt, sleep_requested = false.
WakeAtReset(p) ==
    [pin |-> p, samples |-> << >>, mcu_active |-> 0, int |-> "disabled",
     sense |-> "none", pending |-> FALSE, sleep_requested |-> FALSE,
     callback_runs |-> 0, leds |-> << 0, 0 >>]

\* The handshake when main() calls nor_flash_system_init and P1.13 has been
\* high all the time: P1.14 high, the falling-edge interrupt armed.
WakeArmed ==
    [pin |-> 1, samples |-> [i \in 1..WAKE_CHECK_SAMPLES |-> 1],
     mcu_active |-> 1, int |-> "edge_to_inactive", sense |-> "none",
     pending |-> FALSE, sleep_requested |-> FALSE, callback_runs |-> 0,
     leds |-> << 0, 0 >>]

\* main() at position at with the handshake w, the chips holding the
\* filesystems dks.
FileLayerInitAt(at, w, dks, calls) ==
    /\ main_pc = at
    /\ wake = w
    /\ init_dev = 1
    /\ init_ret = 0
    /\ mount_state = [l \in LfsInstances |-> "Unmounted"]
    /\ mount_log = [l \in LfsInstances |-> << >>]
    /\ chip_log = << >>
    /\ disk \in {[l \in LfsInstances |-> dk[l]] : dk \in dks}
    /\ open_handles = [l \in LfsInstances |-> 0]
    /\ file = NoFile
    /\ fcall = NoFCall
    /\ file_ret = 0
    /\ api_ret = 0
    /\ buffer = << >>
    /\ lfs_log = << >>
    /\ boots = 0
    /\ disk_at_boot = disk
    /\ fs_calls_left = calls
    /\ written = [l \in LfsInstances |-> [n \in FileNames |-> Unknown]]

\* The File API layer when main() calls nor_flash_system_init.
FileLayerInit(dks, calls) == FileLayerInitAt("start", WakeArmed, dks, calls)

env == << flash1_size_mb, chip1_tprog, chip1_id, flash1_initialized, file_layer,
         thread2 >>
chip1 == << chip1_mem, chip1_wel, chip1_busy >>
locals == << addr, size, data_off, poll_i >>
frame == << addr, size, data_off, poll_i, tx, rx_len, tx_ret >>

\* Thread two between two calls, calls more to come.
Thread2Idle(calls) ==
    [pc |-> "idle", call |-> NoCall, ret |-> 0, rx |-> << >>,
     mem_before |-> InitMem, calls_left |-> calls]

NoProg == [valid |-> FALSE, block |-> 0, off |-> 0, size |-> 0,
           ok |-> FALSE, erased |-> FALSE]

\* Whether the n bytes a 3-byte-address command reaches from a on are erased.
Erased(mem, a, n) == \A i \in 0..(n - 1) : MemAt(mem, (a + i) % ADDR24_MOD) = ERASED

\* last_prog1 once the call that has just returned is taken into account.
LastProg1After ==
    IF call.op = "lfs1_prog"
    THEN [valid |-> TRUE, block |-> call.block, off |-> call.off,
          size |-> call.size, ok |-> ret = LFS_ERR_OK,
          erased |-> Erased(mem_before[1], lfs_addr(call.block, call.off), call.size)]
    ELSE IF call.op = "lfs1_erase" THEN NoProg
    ELSE last_prog1

\* A callback is entered: the caller is idle and hands over its arguments.
Enter(op, block, off, sz) ==
    /\ pc = "idle"
    /\ flash1_initialized
    /\ calls_left > 0
    /\ calls_left' = calls_left - 1
    /\ call' = [op |-> op, block |-> block, off |-> off, size |-> sz]
    /\ bus_log' = << >>
    /\ wait_ret' = 0
    /\ mem_before' = << chip1_mem, flash2_mem >>
    /\ last_prog1' = LastProg1After

\* The callback has not returned yet.
Pending == ret' = 0 /\ drv_ret' = 0

\* The driver function returns r and the callback maps it for LittleFS.
Return(r) ==
    /\ pc' = "idle"
    /\ drv_ret' = r
    /\ ret' = lfs_err(r)

\* The locals of the Flash1 driver functions end with the call.
PopFrame(keep) ==
    /\ addr' = 0 /\ size' = 0 /\ data_off' = 0 /\ poll_i' = 0
    /\ tx' = << >> /\ rx_len' = 0
    /\ keep \/ tx_ret' = 0

\* The caller hands transaction t (expecting n reply bytes) to flash1_transceive.
Transceive(at, t, n) ==
    /\ pc' = at
    /\ tx' = t
    /\ rx_len' = n

TxPcs == {"read_tx", "prog_wren", "prog_pp", "prog_wait",
          "erase_wren", "erase_cmd", "erase_wait", "init_wakeup", "init_id"}

BlockLayerInit(sizes, tprogs, calls) ==
    /\ flash1_size_mb \in sizes
    /\ chip1_tprog \in tprogs
    /\ chip1_mem = InitMem
    /\ chip1_wel = FALSE
    /\ chip1_busy = 0
    /\ flash2_mem = InitMem
    /\ cs_pin = 1
    /\ pc = "idle"
    /\ call = NoCall
    /\ addr = 0 /\ size = 0 /\ data_off = 0 /\ poll_i = 0
    /\ tx = << >> /\ rx_len = 0 /\ tx_ret = 0 /\ rx = << >>
    /\ ret = 0 /\ drv_ret = 0 /\ wait_ret = 0
    /\ bus_log = << >>
    /\ mem_before = << InitMem, InitMem >>
    /\ calls_left = calls
    /\ last_prog1 = NoProg

\* The callbacks on their own: LittleFS is the caller, the File API layer rests.
InitWith(sizes, tprogs, calls) ==
    /\ BlockLayerInit(sizes, tprogs, calls)
    /\ FileLayerInit({<< EmptyFs, EmptyFs >>}, 0)
    /\ thread2 = Thread2Idle(0)
    /\ chip1_id = addr_bytes(FLASH1_CHIP_JEDEC_ID)
    /\ flash1_initialized = TRUE

\* Every build of Flash1, a chip that needs up to 1 ms for a program or erase.
Init == InitWith(FLASH1_SIZES, {0, 1}, MaxCalls)

\* The default build, one callback, a chip that needs up to 1000 ms.
InitWait == InitWith({FLASH1_SIZE_MB_DEFAULT}, {0, 1, 999, 1000}, 1)

(***************************************************************************)
(* flash1_transceive: chip-select low, spi_write, spi_read.  The caller's *)
(* continuation raises chip-select again (lines 113, 124, 130).           *)
(***************************************************************************)
flash1_transceive ==
    /\ pc \in TxPcs
    /\ cs_pin = 1
    /\ cs_pin' = 0
    /\ \E w \in SpiResults, r \in (IF rx_len > 0 THEN SpiResults ELSE {0}) :
         LET c == IF w = 0 THEN ChipExec(tx)
                  ELSE [mem |-> chip1_mem, wel |-> chip1_wel, busy |-> chip1_busy]
             ok == w = 0 /\ r = 0
             reply == IF ok /\ rx_len > 0 THEN ChipReply(tx, rx_len) ELSE rx
             st == IF ok /\ TxCmd(tx) = CMD_READ_STATUS THEN reply[1] ELSE 0
         IN  /\ tx_ret' = (IF w # 0 THEN w ELSE r)
             /\ chip1_mem' = c.mem
             /\ chip1_wel' = c.wel
             /\ chip1_busy' = c.busy
             /\ rx' = reply
             /\ bus_log' = LogAppend(bus_log, flash1_transceive_spi(w, rx_len) @@
                                               LogEntry(tx, rx_len, ok, st))
    /\ UNCHANGED << env, flash2_mem, pc, call, locals, tx, rx_len, ret,
                    drv_ret, wait_ret, mem_before, calls_left, last_prog1 >>

(***************************************************************************)
(* lfs1_read -> flash1_read_data                                           *)
(***************************************************************************)
lfs1_read ==
    \E block \in Blocks1, a \in ReadArgs :
      /\ Enter("lfs1_read", block, a[1], a[2])
      /\ rx' = << >>
      /\ IF flash1_read_data_rejects(a[2])
         THEN /\ Return(-EINVAL)
              /\ UNCHANGED frame
         ELSE /\ addr' = lfs_addr(block, a[1])
              /\ Transceive("read_tx", flash1_read_data_cmd(lfs_addr(block, a[1])), a[2])
              /\ Pending
              /\ UNCHANGED << size, data_off, poll_i, tx_ret >>
      /\ UNCHANGED << env, chip1, flash2_mem, cs_pin >>

\* return flash1_transceive(cmd, 4, buf, size);
flash1_read_data_ret ==
    /\ pc = "read_tx"
    /\ cs_pin = 0
    /\ cs_pin' = flash1_transceive_cs(tx_ret)
    /\ Return(tx_ret)
    /\ PopFrame(FALSE)
    /\ UNCHANGED << env, chip1, flash2_mem, call, rx, wait_ret, bus_log,
                    mem_before, calls_left, last_prog1 >>

(***************************************************************************)
(* lfs1_prog -> flash1_prog_data                                           *)
(***************************************************************************)
lfs1_prog ==
    \E block \in Blocks1, a \in Prog1Args :
      /\ Enter("lfs1_prog", block, a[1], a[2])
      /\ rx' = << >>
      /\ IF a[2] > 0
         THEN /\ addr' = lfs_addr(block, a[1])
              /\ size' = a[2]
              /\ data_off' = 0
              /\ Transceive("prog_wren", flash1_write_enable_cmd, 0)
              /\ Pending
              /\ UNCHANGED << poll_i, tx_ret >>
         ELSE /\ Return(0)
              /\ UNCHANGED frame
      /\ UNCHANGED << env, chip1, flash2_mem, cs_pin >>

\* if (flash1_write_enable() != 0) return -EIO;  then the page-program command
flash1_prog_data_wren_ret ==
    /\ pc = "prog_wren"
    /\ cs_pin = 0
    /\ cs_pin' = flash1_transceive_cs(tx_ret)
    /\ IF step_failed(tx_ret)
       THEN /\ Return(-EIO)
            /\ PopFrame(FALSE)
       ELSE /\ Transceive("prog_pp",
                  flash1_prog_data_cmd(addr, Buf(call.size), data_off,
                                       write_size(addr, size)), 0)
            /\ UNCHANGED << ret, drv_ret, locals, tx_ret >>
    /\ UNCHANGED << env, chip1, flash2_mem, call, rx, wait_ret, bus_log,
                    mem_before, calls_left, last_prog1 >>

\* if (flash1_transceive(cmd, 4 + write_size, NULL, 0) != 0) return -EIO;
\* then flash1_wait_ready up to its first flash1_read_status
flash1_prog_data_pp_ret ==
    /\ pc = "prog_pp"
    /\ cs_pin = 0
    /\ cs_pin' = flash1_transceive_cs(tx_ret)
    /\ IF step_failed(tx_ret)
       THEN /\ Return(-EIO)
            /\ PopFrame(FALSE)
       ELSE /\ poll_i' = 0
            /\ Transceive("prog_wait", flash1_read_status_cmd, 1)
            /\ UNCHANGED << ret, drv_ret, addr, size, data_off, tx_ret >>
    /\ UNCHANGED << env, chip1, flash2_mem, call, rx, wait_ret, bus_log,
                    mem_before, calls_left, last_prog1 >>

\* One turn of flash1_wait_ready inside flash1_prog_data; when it returns,
\* the rest of the loop body and the loop test.
flash1_prog_data_wait_ret ==
    /\ pc = "prog_wait"
    /\ cs_pin = 0
    /\ cs_pin' = flash1_transceive_cs(tx_ret)
    /\ LET w == flash1_wait_ready(poll_i, tx_ret, IF Len(rx) > 0 THEN rx[1] ELSE 0)
           ws == write_size(addr, size)
       IN  /\ chip1_busy' = (IF w.slept THEN ChipAfter1ms(chip1_busy) ELSE chip1_busy)
           /\ IF ~w.done
              THEN /\ poll_i' = w.i
                   /\ UNCHANGED << pc, tx, rx_len, tx_ret, ret, drv_ret,
                                   wait_ret, addr, size, data_off >>
              ELSE /\ wait_ret' = w.ret
                   /\ IF step_failed(w.ret)
                      THEN /\ Return(-EIO)
                           /\ PopFrame(FALSE)
                      ELSE IF size - ws > 0
                      THEN /\ addr' = uint32(addr + ws)
                           /\ data_off' = data_off + ws
                           /\ size' = size - ws
                           /\ poll_i' = w.i
                           /\ Transceive("prog_wren", flash1_write_enable_cmd, 0)
                           /\ UNCHANGED << ret, drv_ret, tx_ret >>
                      ELSE /\ Return(0)
                           /\ PopFrame(FALSE)
    /\ UNCHANGED << env, chip1_mem, chip1_wel, flash2_mem, call, rx, bus_log,
                    mem_before, calls_left, last_prog1 >>

(***************************************************************************)
(* lfs1_erase -> flash1_erase_sector                                       *)
(***************************************************************************)
lfs1_erase ==
    \E block \in Blocks1 :
      /\ Enter("lfs1_erase", block, 0, 0)
      /\ rx' = << >>
      /\ addr' = lfs_addr(block, 0)
      /\ Transceive("erase_wren", flash1_write_enable_cmd, 0)
      /\ Pending
      /\ UNCHANGED << env, chip1, flash2_mem, cs_pin, size, data_off, poll_i,
                      tx_ret >>

flash1_erase_sector_wren_ret ==
    /\ pc = "erase_wren"
    /\ cs_pin = 0
    /\ cs_pin' = flash1_transceive_cs(tx_ret)
    /\ IF step_failed(tx_ret)
       THEN /\ Return(-EIO)
            /\ PopFrame(FALSE)
       ELSE /\ Transceive("erase_cmd", flash1_erase_sector_cmd(addr), 0)
            /\ UNCHANGED << ret, drv_ret, locals, tx_ret >>
    /\ UNCHANGED << env, chip1, flash2_mem, call, rx, wait_ret, bus_log,
                    mem_before, calls_left, last_prog1 >>

flash1_erase_sector_cmd_ret ==
    /\ pc = "erase_cmd"
    /\ cs_pin = 0
    /\ cs_pin' = flash1_transceive_cs(tx_ret)
    /\ IF step_failed(tx_ret)
       THEN /\ Return(-EIO)
            /\ PopFrame(FALSE)
       ELSE /\ poll_i' = 0
            /\ Transceive("erase_wait", flash1_read_status_cmd, 1)
            /\ UNCHANGED << ret, drv_ret, addr, size, data_off, tx_ret >>
    /\ UNCHANGED << env, chip1, flash2_mem, call, rx, wait_ret, bus_log,
                    mem_before, calls_left, last_prog1 >>

\* return flash1_wait_ready();
flash1_erase_sector_wait_ret ==
    /\ pc = "erase_wait"
    /\ cs_pin = 0
    /\ cs_pin' = flash1_transceive_cs(tx_ret)
    /\ LET w == flash1_wait_ready(poll_i, tx_ret, IF Len(rx) > 0 THEN rx[1] ELSE 0)
       IN  /\ chip1_busy' = (IF w.slept THEN ChipAfter1ms(chip1_busy) ELSE chip1_busy)
           /\ IF ~w.done
              THEN /\ poll_i' = w.i
                   /\ UNCHANGED << pc, tx, rx_len, tx_ret, ret, drv_ret,
                                   wait_ret, addr, size, data_off >>
              ELSE /\ wait_ret' = w.ret
                   /\ Return(w.ret)
                   /\ PopFrame(FALSE)
    /\ UNCHANGED << env, chip1_mem, chip1_wel, flash2_mem, call, rx, bus_log,
                    mem_before, calls_left, last_prog1 >>

\* static int lfs1_sync(const struct lfs_config *c) { return LFS_ERR_OK; }
lfs1_sync ==
    /\ Enter("lfs1_sync", 0, 0, 0)
    /\ ret' = LFS_ERR_OK
    /\ drv_ret' = 0
    /\ UNCHANGED << env, chip1, flash2_mem, cs_pin, pc, frame, rx >>

(***************************************************************************)
(* Flash2 callbacks: one call of the Zephyr flash API each.                *)
(***************************************************************************)
lfs2_read ==
    \E block \in Blocks2, a \in ReadArgs :
      \E r \in flash_api_results(lfs_addr(block, a[1]), a[2]) :
        /\ Enter("lfs2_read", block, a[1], a[2])
        /\ rx' = (IF r = 0 THEN flash_read(flash2_mem, lfs_addr(block, a[1]), a[2])
                  ELSE << >>)
        /\ Return(r)
        /\ UNCHANGED << env, chip1, flash2_mem, cs_pin, frame >>

lfs2_prog ==
    \E block \in Blocks2, a \in ProgArgs :
      \E r \in flash_api_results(lfs_addr(block, a[1]), a[2]) :
        /\ Enter("lfs2_prog", block, a[1], a[2])
        /\ flash2_mem' = (IF r = 0
                          THEN flash_write(flash2_mem, lfs_addr(block, a[1]), Buf(a[2]))
                          ELSE flash2_mem)
        /\ rx' = << >>
        /\ Return(r)
        /\ UNCHANGED << env, chip1, cs_pin, frame >>

lfs2_erase ==
    \E block \in Blocks2 :
      \E r \in flash_api_results(lfs_addr(block, 0), FLASH_SECTOR_SIZE) :
        /\ Enter("lfs2_erase", block, 0, 0)
        /\ flash2_mem' = (IF r = 0
                          THEN flash_erase(flash2_mem, lfs_addr(block, 0), FLASH_SECTOR_SIZE)
                          ELSE flash2_mem)
        /\ rx' = << >>
        /\ Return(r)
        /\ UNCHANGED << env, chip1, cs_pin, frame >>

\* a sync that asserts the Flash1 chip-select and leaves it asserted
lfs2_sync_asserts_cs ==
    /\ Enter("lfs2_sync", 0, 0, 0)
    /\ ret' = LFS_ERR_OK
    /\ drv_ret' = 0
    /\ cs_pin' = 0
    /\ UNCHANGED << env, chip1, flash2_mem, pc, frame, rx >>

\* static int lfs2_sync(const struct lfs_config *c) { return LFS_ERR_OK; }
lfs2_sync ==
    /\ Enter("lfs2_sync", 0, 0, 0)
    /\ ret' = LFS_ERR_OK
    /\ drv_ret' = 0
    /\ UNCHANGED << env, chip1, flash2_mem, cs_pin, pc, frame, rx >>

Next ==
    \/ flash1_transceive
    \/ lfs1_read
    \/ flash1_read_data_ret
    \/ lfs1_prog
    \/ flash1_prog_data_wren_ret
    \/ flash1_prog_data_pp_ret
    \/ flash1_prog_data_wait_ret
    \/ lfs1_erase
    \/ flash1_erase_sector_wren_ret
    \/ flash1_erase_sector_cmd_ret
    \/ flash1_erase_sector_wait_ret
    \/ lfs1_sync
    \/ lfs2_read
    \/ lfs2_prog
    \/ lfs2_erase
    \/ lfs2_sync

Spec == Init /\ [][Next]_vars

SpecWait == InitWait /\ [][Next]_vars

(***************************************************************************)
(* flash1_init, and the driver from power-up: the callbacks run once       *)
(* flash1_init has returned 0 (nor_flash_system_init mounts only then).    *)
(***************************************************************************)
\* The chips that may sit on the Flash1 bus: the expected one, another
\* Macronix part, a part of another vendor, no part at all (MISO high).
Chip1Ids == { addr_bytes(FLASH1_CHIP_JEDEC_ID), << MACRONIX_ID, 32, 23 >>,
              << 239, 64, 24 >>, << 255, 255, 255 >> }

\* flash1_init returns r (to nor_flash_system_init).
InitReturn(r) ==
    /\ pc' = "idle"
    /\ drv_ret' = r
    /\ ret' = r

\* flash1_init up to the wake-up transaction
flash1_init ==
    /\ pc = "idle"
    /\ calls_left > 0
    /\ calls_left' = calls_left - 1
    /\ call' = [op |-> "flash1_init", block |-> 0, off |-> 0, size |-> 0]
    /\ bus_log' = << >>
    /\ wait_ret' = 0
    /\ rx' = << >>
    /\ mem_before' = << chip1_mem, flash2_mem >>
    /\ last_prog1' = LastProg1After
    /\ \E spi_ready \in BOOLEAN, gpio_ready \in BOOLEAN :
         IF flash1_init_devices(spi_ready, gpio_ready) # 0
         THEN /\ InitReturn(flash1_init_devices(spi_ready, gpio_ready))
              /\ UNCHANGED << frame, cs_pin, chip1_busy >>
         ELSE /\ cs_pin' = 1
              /\ chip1_busy' = (IF chip1_busy > 10 THEN chip1_busy - 10 ELSE 0)
              /\ Transceive("init_wakeup", flash1_release_pd_cmd, 0)
              /\ Pending
              /\ UNCHANGED << locals, tx_ret >>
    /\ UNCHANGED << flash1_size_mb, chip1_tprog, chip1_id, flash1_initialized,
                    file_layer, thread2, chip1_mem, chip1_wel, flash2_mem >>

\* flash1_transceive(wakeup, 1, NULL, 0); k_msleep(1);  then flash1_read_id
flash1_init_wakeup_ret ==
    /\ pc = "init_wakeup"
    /\ cs_pin = 0
    /\ cs_pin' = flash1_transceive_cs(tx_ret)
    /\ chip1_busy' = ChipAfter1ms(chip1_busy)
    /\ Transceive("init_id", flash1_read_id_cmd, 3)
    /\ UNCHANGED << env, chip1_mem, chip1_wel, flash2_mem, call, rx, ret, drv_ret,
                    locals, tx_ret, wait_ret, bus_log, mem_before, calls_left,
                    last_prog1 >>

\* if (flash1_read_id(id) != 0) return -EIO;  the ID check;  initialized = true
flash1_init_id_ret ==
    /\ pc = "init_id"
    /\ cs_pin = 0
    /\ cs_pin' = flash1_transceive_cs(tx_ret)
    /\ LET r == IF step_failed(tx_ret) THEN -EIO
                ELSE flash1_init_id_check(rx, FLASH1_CHIP_JEDEC_ID)
       IN  /\ InitReturn(r)
           /\ flash1_initialized' = (flash1_initialized \/ r = 0)
    /\ PopFrame(FALSE)
    /\ UNCHANGED << flash1_size_mb, chip1_tprog, chip1_id, file_layer, thread2,
                    chip1, flash2_mem, call, rx, wait_ret, bus_log, mem_before,
                    calls_left, last_prog1 >>

\* Power-up: any build, any chip, flash1_init still to be called.
InitDrv ==
    /\ BlockLayerInit(FLASH1_SIZES, {0, 1}, MaxCalls + 1)
    /\ FileLayerInit({<< EmptyFs, EmptyFs >>}, 0)
    /\ thread2 = Thread2Idle(0)
    /\ chip1_id \in Chip1Ids
    /\ flash1_initialized = FALSE

NextDrv ==
    \/ flash1_init
    \/ flash1_init_wakeup_ret
    \/ flash1_init_id_ret
    \/ Next

SpecDrv == InitDrv /\ [][NextDrv]_vars

(***************************************************************************)
(* Two threads without a lock between them: thread one runs the Flash1     *)
(* callbacks above, thread two the Flash2 callbacks below.  A Flash2       *)
(* callback is two steps, the call of the Zephyr flash API and its return, *)
(* so that steps of thread one fall inside it.                             *)
(***************************************************************************)
\* Everything thread one owns: the chip-select pin, its position and locals.
thread1 == << cs_pin, pc, call, addr, size, data_off, poll_i, tx, rx_len,
              tx_ret, rx, ret, drv_ret, wait_ret, bus_log, mem_before,
              calls_left, last_prog1 >>

InitConc ==
    /\ BlockLayerInit({FLASH1_SIZE_MB_DEFAULT}, {0, 1}, MaxConcCalls)
    /\ FileLayerInit({<< EmptyFs, EmptyFs >>}, 0)
    /\ thread2 = Thread2Idle(MaxConcCalls)
    /\ chip1_id = addr_bytes(FLASH1_CHIP_JEDEC_ID)
    /\ flash1_initialized = TRUE

\* Thread two enters a Flash2 callback and is now at position at.
Thread2Enter(op, at, block, off, sz) ==
    /\ thread2.pc = "idle"
    /\ thread2.calls_left > 0
    /\ thread2' = [pc |-> at,
                   call |-> [op |-> op, block |-> block, off |-> off, size |-> sz],
                   ret |-> 0, rx |-> << >>, mem_before |-> flash2_mem,
                   calls_left |-> thread2.calls_left - 1]

\* int ret = flash_read(flash2_dev, addr, buf, size);
thread2_lfs2_read ==
    \E block \in Blocks2, a \in ReadArgs :
      /\ Thread2Enter("lfs2_read", "flash_read", block, a[1], a[2])
      /\ UNCHANGED << flash1_size_mb, chip1_tprog, chip1_id, flash1_initialized,
                      file_layer, chip1, flash2_mem, thread1 >>

\* int ret = flash_write(flash2_dev, addr, buf, size);
thread2_lfs2_prog ==
    \E block \in Blocks2, a \in ProgArgs :
      /\ Thread2Enter("lfs2_prog", "flash_write", block, a[1], a[2])
      /\ UNCHANGED << flash1_size_mb, chip1_tprog, chip1_id, flash1_initialized,
                      file_layer, chip1, flash2_mem, thread1 >>

\* int ret = flash_erase(flash2_dev, addr, FLASH_SECTOR_SIZE);
thread2_lfs2_erase ==
    \E block \in Blocks2 :
      /\ Thread2Enter("lfs2_erase", "flash_erase", block, 0, 0)
      /\ UNCHANGED << flash1_size_mb, chip1_tprog, chip1_id, flash1_initialized,
                      file_layer, chip1, flash2_mem, thread1 >>

\* a sync that asserts the Flash1 chip-select
thread2_lfs2_sync_asserts_cs ==
    /\ thread2.pc = "idle"
    /\ thread2.calls_left > 0
    /\ thread2' = [pc |-> "idle",
                   call |-> [op |-> "lfs2_sync", block |-> 0, off |-> 0, size |-> 0],
                   ret |-> LFS_ERR_OK, rx |-> << >>, mem_before |-> flash2_mem,
                   calls_left |-> thread2.calls_left - 1]
    /\ cs_pin' = 0
    /\ UNCHANGED << flash1_size_mb, chip1_tprog, chip1_id, flash1_initialized,
                    file_layer, chip1, flash2_mem, pc, call, frame, rx, ret, drv_ret, wait_ret, bus_log,
                    mem_before, calls_left, last_prog1 >>

\* static int lfs2_sync(const struct lfs_config *c) { return LFS_ERR_OK; }
thread2_lfs2_sync ==
    /\ thread2.pc = "idle"
    /\ thread2.calls_left > 0
    /\ thread2' = [pc |-> "idle",
                   call |-> [op |-> "lfs2_sync", block |-> 0, off |-> 0, size |-> 0],
                   ret |-> LFS_ERR_OK, rx |-> << >>, mem_before |-> flash2_mem,
                   calls_left |-> thread2.calls_left - 1]
    /\ UNCHANGED << flash1_size_mb, chip1_tprog, chip1_id, flash1_initialized,
                    file_layer, chip1, flash2_mem, thread1 >>

\* The vendor call of thread two returns:  return (ret == 0) ? LFS_ERR_OK : LFS_ERR_IO;
thread2_flash_api_return ==
    /\ thread2.pc \in {"flash_read", "flash_write", "flash_erase"}
    /\ LET c == thread2.call
           a == lfs_addr(c.block, c.off)
           n == IF thread2.pc = "flash_erase" THEN FLASH_SECTOR_SIZE ELSE c.size
       IN  \E r \in flash_api_results(a, n) :
             /\ flash2_mem' =
                  (IF r # 0 THEN flash2_mem
                   ELSE IF thread2.pc = "flash_write"
                        THEN flash_write(flash2_mem, a, Buf(c.size))
                   ELSE IF thread2.pc = "flash_erase"
                        THEN flash_erase(flash2_mem, a, FLASH_SECTOR_SIZE)
                   ELSE flash2_mem)
             /\ thread2' = [thread2 EXCEPT
                              !.pc = "idle",
                              !.ret = lfs_err(r),
                              !.rx = IF r = 0 /\ thread2.pc = "flash_read"
                                     THEN flash_read(flash2_mem, a, c.size)
                                     ELSE << >>]
    /\ UNCHANGED << flash1_size_mb, chip1_tprog, chip1_id, flash1_initialized,
                    file_layer, chip1, thread1 >>

NextConc ==
    \/ flash1_transceive
    \/ lfs1_read
    \/ flash1_read_data_ret
    \/ lfs1_prog
    \/ flash1_prog_data_wren_ret
    \/ flash1_prog_data_pp_ret
    \/ flash1_prog_data_wait_ret
    \/ lfs1_erase
    \/ flash1_erase_sector_wren_ret
    \/ flash1_erase_sector_cmd_ret
    \/ flash1_erase_sector_wait_ret
    \/ lfs1_sync
    \/ thread2_lfs2_read
    \/ thread2_lfs2_prog
    \/ thread2_lfs2_erase
    \/ thread2_lfs2_sync
    \/ thread2_flash_api_return

SpecConc == InitConc /\ [][NextConc]_vars

(***************************************************************************)
(* The File API layer on its own: main() calls nor_flash_system_init and   *)
(* then the File API; LittleFS stands between it and the callbacks above,  *)
(* which rest.  One step is one call of the library (or of a chip init).   *)
(***************************************************************************)
block_devices == << flash1_size_mb, chip1_tprog, chip1_mem, chip1_wel,
                  chip1_busy, flash2_mem, cs_pin, pc, call, addr, size,
                  data_off, poll_i, tx, rx_len, tx_ret, rx, ret, drv_ret,
                  wait_ret, bus_log, mem_before, calls_left, last_prog1,
                  thread2, chip1_id >>

block_layer == << block_devices, wake >>

fs_mount == << init_dev, mount_state, mount_log >>
fs_boot == << boots, disk_at_boot >>
fs_init == << chip_log, boots, disk_at_boot, flash1_initialized >>
fs_call == << file, fcall, file_ret, api_ret, buffer, lfs_log, open_handles,
              fs_calls_left >>

InitFs ==
    /\ BlockLayerInit({FLASH1_SIZE_MB_DEFAULT}, {0}, 0)
    /\ FileLayerInit(InitDisks, MaxFsCalls)
    /\ thread2 = Thread2Idle(0)
    /\ chip1_id = addr_bytes(FLASH1_CHIP_JEDEC_ID)
    /\ flash1_initialized = FALSE

\* nor_flash_system_init returns r.
SystemInitReturn(r) ==
    /\ init_ret' = r
    /\ main_pc' = "init_done"

\* lfs_init_mount returns r to nor_flash_system_init (lines 405-406).
InitMountReturn(r) ==
    IF system_init_step_failed(r)
    THEN /\ SystemInitReturn(-EIO)
         /\ UNCHANGED init_dev
    ELSE IF init_dev = 1
    THEN /\ init_dev' = 2
         /\ main_pc' = "init_mount"
         /\ UNCHANGED init_ret
    ELSE /\ SystemInitReturn(0)
         /\ UNCHANGED init_dev

MountLogged(fn, r) ==
    mount_log' = [mount_log EXCEPT ![init_dev] = Append(@, LibCall(fn, init_dev, r))]

MountState(st) == mount_state' = [mount_state EXCEPT ![init_dev] = st]

\* nor_flash_system_init: if (flash1_init() != 0) return -EIO;
nor_flash_system_init ==
    /\ main_pc = "start"
    /\ \E r \in flash1_init_results :
         /\ chip_log' = Append(chip_log, r)
         /\ flash1_initialized' = (flash1_initialized \/ r = 0)
         /\ IF system_init_step_failed(r)
            THEN SystemInitReturn(-EIO)
            ELSE /\ main_pc' = "init_flash2"
                 /\ UNCHANGED init_ret
    /\ UNCHANGED << block_layer, fs_mount, disk, fs_call, fs_boot, written >>

\* if (flash2_init() != 0) return -EIO;  then the buffers of both configs
nor_flash_system_init_flash2 ==
    /\ main_pc = "init_flash2"
    /\ \E r \in flash2_init_results :
         /\ chip_log' = Append(chip_log, r)
         /\ IF system_init_step_failed(r)
            THEN SystemInitReturn(-EIO)
            ELSE /\ main_pc' = "init_mount"
                 /\ UNCHANGED init_ret
    /\ UNCHANGED << block_layer, fs_mount, disk, fs_call, fs_boot, written,
                    flash1_initialized >>

\* lfs_init_mount: int ret = lfs_mount(lfs, cfg); if (ret == LFS_ERR_OK) return 0;
lfs_init_mount ==
    /\ main_pc = "init_mount"
    /\ \E r \in lfs_mount_results(disk[init_dev]) :
         /\ MountLogged("lfs_mount", r)
         /\ IF mount_needs_format(r)
            THEN /\ MountState("Formatting")
                 /\ main_pc' = "init_format"
                 /\ UNCHANGED << init_dev, init_ret >>
            ELSE /\ MountState("Mounted")
                 /\ InitMountReturn(0)
    /\ UNCHANGED << block_layer, disk, fs_call, fs_init, written >>

\* ret = lfs_format(lfs, cfg); if (ret != LFS_ERR_OK) return -EIO;
lfs_init_mount_format ==
    /\ main_pc = "init_format"
    /\ \E r \in lfs_format_results :
         /\ MountLogged("lfs_format", r)
         /\ disk' = [disk EXCEPT ![init_dev] = lfs_format(@, r)]
         /\ written' = [written EXCEPT ![init_dev] = [n \in FileNames |-> Unknown]]
         /\ IF lfs_step_failed(r)
            THEN /\ MountState("FatalInitFailure")
                 /\ InitMountReturn(-EIO)
            ELSE /\ main_pc' = "init_remount"
                 /\ UNCHANGED << init_dev, init_ret, mount_state >>
    /\ UNCHANGED << block_layer, fs_call, fs_init >>

\* ret = lfs_mount(lfs, cfg); if (ret != LFS_ERR_OK) return -EIO; return 0;
lfs_init_mount_remount ==
    /\ main_pc = "init_remount"
    /\ \E r \in lfs_mount_results(disk[init_dev]) :
         /\ MountLogged("lfs_mount", r)
         /\ IF lfs_step_failed(r)
            THEN /\ MountState("FatalInitFailure")
                 /\ InitMountReturn(-EIO)
            ELSE /\ MountState("Mounted")
                 /\ InitMountReturn(0)
    /\ UNCHANGED << block_layer, disk, fs_call, fs_init, written >>

\* main: ret = nor_flash_system_init(); if (ret != 0) { ...; return ret; }
main_after_init ==
    /\ main_pc = "init_done"
    /\ main_pc' = (IF main_stops(init_ret) THEN "exited" ELSE "running")
    /\ UNCHANGED << block_layer, init_ret, fs_mount, disk, fs_call, fs_init,
                    written >>

\* A File API call is entered: main is between two calls.
EnterApi(c) ==
    /\ main_pc = "running"
    /\ fs_calls_left > 0
    /\ fs_calls_left' = fs_calls_left - 1
    /\ fcall' = c

\* The value the read call at hand returns when nor_flash_read_file returns r.
ReadApiResult(op, r, sz) == IF op = "read_struct" THEN read_struct_result(r, sz) ELSE r

OpenHandles(l, n) == open_handles' = [open_handles EXCEPT ![l] = @ + n]

\* nor_flash_write_file returns r: what the caller now knows of the file.
Written(l, name, d, r, closed) ==
    written' = [written EXCEPT ![l][name] =
                  IF r = 0 THEN [known |-> TRUE, data |-> d, committed |-> closed]
                  ELSE Unknown]

\* nor_flash_write_file (also below nor_flash_write_struct) up to its open
nor_flash_write_file ==
    \E op \in {"write_file", "write_struct"}, device \in Devices,
       name \in FileNames, d \in WriteBufs :
      LET l == lfs_select(device) IN
      \E r \in lfs_file_open_results(disk[l], name, write_file_flags) :
        /\ EnterApi([op |-> op, device |-> device, name |-> name, data |-> d,
                     len |-> Len(d)])
        /\ lfs_log' = << LibCall("lfs_file_open", l, r) >>
        /\ disk' = [disk EXCEPT ![l] = lfs_file_open_disk(@, name, write_file_flags, r)]
        /\ buffer' = << >>
        /\ file_ret' = r
        /\ IF r < 0
           THEN /\ api_ret' = open_failed_result(r)
                /\ Written(l, name, d, open_failed_result(r), FALSE)
                /\ UNCHANGED << main_pc, file, open_handles >>
           ELSE /\ file' = lfs_file_open(disk[l], l, name, write_file_flags)
                /\ OpenHandles(l, 1)
                /\ main_pc' = "write_file_write"
                /\ api_ret' = 0
                /\ UNCHANGED written
        /\ UNCHANGED << block_layer, init_ret, fs_mount, fs_init >>

\* ret = lfs_file_write(lfs, &file, data, len);
nor_flash_write_file_write ==
    /\ main_pc = "write_file_write"
    /\ \E r \in lfs_file_write_results(fcall.len) :
         /\ file_ret' = r
         /\ lfs_log' = Append(lfs_log, LibCall("lfs_file_write", file.lfs, r))
         /\ IF write_file_closes(r)
            THEN /\ file' = lfs_file_write(file, fcall.data, r)
                 /\ main_pc' = "write_file_close"
                 /\ UNCHANGED << api_ret, written >>
            ELSE /\ file' = NoFile
                 /\ main_pc' = "running"
                 /\ api_ret' = write_file_result(r)
                 /\ Written(file.lfs, file.name, fcall.data, write_file_result(r), FALSE)
    /\ UNCHANGED << block_layer, init_ret, fs_mount, fs_init, disk, fcall, buffer,
                    open_handles, fs_calls_left >>

\* lfs_file_close(lfs, &file);  return (ret >= 0) ? 0 : ret;
nor_flash_write_file_close ==
    /\ main_pc = "write_file_close"
    /\ \E r \in lfs_file_close_results(file) :
         /\ lfs_log' = Append(lfs_log, LibCall("lfs_file_close", file.lfs, r))
         /\ disk' = [disk EXCEPT ![file.lfs] = lfs_file_close(@, file, r)]
         /\ Written(file.lfs, file.name, fcall.data, write_file_result(file_ret),
                    r = LFS_ERR_OK)
    /\ OpenHandles(file.lfs, -1)
    /\ file' = NoFile
    /\ api_ret' = write_file_result(file_ret)
    /\ main_pc' = "running"
    /\ UNCHANGED << block_layer, init_ret, fs_mount, fs_init, fcall, file_ret,
                    buffer, fs_calls_left >>

\* nor_flash_read_file (also below nor_flash_read_struct) up to its open
nor_flash_read_file ==
    \E op \in {"read_file", "read_struct"}, device \in Devices,
       name \in FileNames, len \in ReadLens :
      LET l == lfs_select(device) IN
      \E r \in lfs_file_open_results(disk[l], name, RDONLY) :
        /\ EnterApi([op |-> op, device |-> device, name |-> name, data |-> << >>,
                     len |-> len])
        /\ lfs_log' = << LibCall("lfs_file_open", l, r) >>
        /\ buffer' = ClearBuffer(len)
        /\ file_ret' = r
        /\ IF r < 0
           THEN /\ api_ret' = ReadApiResult(op, open_failed_result(r), len)
                /\ UNCHANGED << main_pc, file, open_handles >>
           ELSE /\ file' = lfs_file_open(disk[l], l, name, RDONLY)
                /\ OpenHandles(l, 1)
                /\ main_pc' = "read_file_read"
                /\ api_ret' = 0
        /\ UNCHANGED << block_layer, init_ret, fs_mount, fs_init, disk, written >>

\* ret = lfs_file_read(lfs, &file, buffer, len);
nor_flash_read_file_read ==
    /\ main_pc = "read_file_read"
    /\ \E r \in lfs_file_read_results(file, fcall.len) :
         /\ file_ret' = r
         /\ lfs_log' = Append(lfs_log, LibCall("lfs_file_read", file.lfs, r))
         /\ buffer' = lfs_file_read(file, buffer, r)
    /\ main_pc' = "read_file_close"
    /\ UNCHANGED << block_layer, init_ret, fs_mount, fs_init, disk, file, fcall,
                    api_ret, open_handles, fs_calls_left, written >>

\* lfs_file_close(lfs, &file);  return ret;  and the rest of nor_flash_read_struct
nor_flash_read_file_close ==
    /\ main_pc = "read_file_close"
    /\ \E r \in lfs_file_close_results(file) :
         /\ lfs_log' = Append(lfs_log, LibCall("lfs_file_close", file.lfs, r))
         /\ disk' = [disk EXCEPT ![file.lfs] = lfs_file_close(@, file, r)]
    /\ OpenHandles(file.lfs, -1)
    /\ file' = NoFile
    /\ api_ret' = ReadApiResult(fcall.op, file_ret, fcall.len)
    /\ main_pc' = "running"
    /\ UNCHANGED << block_layer, init_ret, fs_mount, fs_init, fcall, file_ret,
                    buffer, fs_calls_left, written >>

\* nor_flash_get_file_size: lfs_stat and the lines after it
nor_flash_get_file_size ==
    \E device \in Devices, name \in FileNames :
      LET l == lfs_select(device) IN
      \E r \in lfs_stat_results(disk[l], name) :
        /\ EnterApi([op |-> "get_file_size", device |-> device, name |-> name,
                     data |-> << >>, len |-> 0])
        /\ lfs_log' = << LibCall("lfs_stat", l, r) >>
        /\ buffer' = << >>
        /\ file_ret' = r
        /\ api_ret' = get_file_size_result(r, lfs_stat(disk[l], name))
        /\ UNCHANGED << block_layer, main_pc, init_ret, fs_mount, fs_init, disk,
                        file, open_handles, written >>

\* System OFF entered from the main loop (enter_deep_sleep) and the wake-up
\* reset, or a power cycle after main has returned: RAM is lost, flash is kept.
system_reset ==
    /\ main_pc \in {"running", "exited"}
    /\ boots < MaxBoots
    /\ boots' = boots + 1
    /\ disk_at_boot' = disk
    /\ main_pc' = "start"
    /\ init_dev' = 1
    /\ init_ret' = 0
    /\ mount_state' = [l \in LfsInstances |-> "Unmounted"]
    /\ mount_log' = [l \in LfsInstances |-> << >>]
    /\ chip_log' = << >>
    /\ open_handles' = [l \in LfsInstances |-> 0]
    /\ file' = NoFile
    /\ fcall' = NoFCall
    /\ file_ret' = 0
    /\ api_ret' = 0
    /\ buffer' = << >>
    /\ lfs_log' = << >>
    /\ flash1_initialized' = FALSE
    /\ UNCHANGED << block_layer, disk, fs_calls_left, written >>

NextFs ==
    \/ nor_flash_system_init
    \/ nor_flash_system_init_flash2
    \/ lfs_init_mount
    \/ lfs_init_mount_format
    \/ lfs_init_mount_remount
    \/ main_after_init
    \/ nor_flash_write_file
    \/ nor_flash_write_file_write
    \/ nor_flash_write_file_close
    \/ nor_flash_read_file
    \/ nor_flash_read_file_read
    \/ nor_flash_read_file_close
    \/ nor_flash_get_file_size
    \/ system_reset

SpecFs == InitFs /\ [][NextFs]_vars

(***************************************************************************)
(* main() around the flash demo (SpecMain): the wake pin P1.13 the other   *)
(* processor drives, the check of it at start-up, the interrupt on its     *)
(* falling edge, the main loop and deep sleep.  The demo between           *)
(* nor_flash_system_init and the main loop is any sequence of File API     *)
(* calls, as above; the interrupt may be taken between any two steps.      *)
(***************************************************************************)
MaxMainCalls == 1

\* main and the File API without the position of main and the handshake
demo == << init_dev, init_ret, mount_state, mount_log, chip_log, disk,
           open_handles, file, fcall, file_ret, api_ret, buffer, lfs_log,
           boots, disk_at_boot, fs_calls_left, written, flash1_initialized >>

\* if (nrf_gpio_pin_read(...) == 0)
wake_check_low(level) == level = 0

\* a loop that takes one sample less
wake_check_done_early(i) == i >= WAKE_CHECK_SAMPLES - 1

\* for (int i = 0; i < 10; i++): the loop is left after sample i
wake_check_done(i) == i >= WAKE_CHECK_SAMPLES

\* enter_deep_sleep_immediate and the tail of enter_deep_sleep: P1.14 low,
\* P1.13 armed as wake-up source (sense high), System OFF.
SystemOff(w) ==
    [w EXCEPT !.mcu_active = 0, !.sense = "high", !.leds = << 0, 0 >>]

\* The other processor pulls P1.13 low; the edge is latched while the
\* interrupt is configured.
wake_pin_falls ==
    /\ wake.pin = 1
    /\ wake' = [wake EXCEPT !.pin = 0,
                            !.pending = (@ \/ wake.int = "edge_to_inactive")]
    /\ UNCHANGED << block_devices, demo, main_pc >>

\* The other processor drives P1.13 high.
wake_pin_rises ==
    /\ wake.pin = 0
    /\ wake' = [wake EXCEPT !.pin = 1]
    /\ UNCHANGED << block_devices, demo, main_pc >>

\* a callback that powers the system off itself
wakeup_pin_callback_sleeps ==
    /\ wake.pending
    /\ main_pc # "system_off"
    /\ wake' = SystemOff([wake EXCEPT !.int = "disabled", !.pending = FALSE,
                                      !.sleep_requested = TRUE,
                                      !.callback_runs = @ + 1])
    /\ main_pc' = "system_off"
    /\ UNCHANGED << block_devices, demo >>

\* wakeup_pin_callback, in interrupt context
wakeup_pin_callback ==
    /\ wake.pending
    /\ main_pc # "system_off"
    /\ wake' = [wake EXCEPT !.int = "disabled", !.pending = FALSE,
                            !.sleep_requested = TRUE,
                            !.callback_runs = @ + 1]
    /\ UNCHANGED << block_devices, demo, main_pc >>

\* main() up to the wake check: P1.14 output high, P1.13 input, the other
\* pins disconnected, both LEDs blinked once.
main ==
    /\ main_pc = "reset"
    /\ wake' = [wake EXCEPT !.mcu_active = 1, !.sense = "none",
                            !.leds = << 0, 0 >>]
    /\ main_pc' = "wake_check"
    /\ UNCHANGED << block_devices, demo >>

\* One turn of the wake check: k_msleep(100), one sample of P1.13.
main_wake_check ==
    /\ main_pc = "wake_check"
    /\ LET sampled == Append(wake.samples, wake.pin)
       IN  IF wake_check_low(wake.pin)
           THEN /\ wake' = SystemOff([wake EXCEPT !.samples = sampled])
                /\ main_pc' = "system_off"
           ELSE /\ wake' = [wake EXCEPT !.samples = sampled]
                /\ main_pc' = (IF wake_check_done(Len(sampled))
                               THEN "gpio_setup" ELSE "wake_check")
    /\ UNCHANGED << block_devices, demo >>

\* The GPIO set-up through the Zephyr API: main returns -1 when a device is
\* not ready or a pin cannot be configured; otherwise P1.14 is high, the
\* falling-edge interrupt of P1.13 is armed and the callback added.
main_gpio_setup ==
    /\ main_pc = "gpio_setup"
    /\ \E ok \in BOOLEAN :
         IF ok
         THEN /\ wake' = [wake EXCEPT !.mcu_active = 1,
                                      !.int = "edge_to_inactive",
                                      !.leds = << 0, 0 >>]
              /\ main_pc' = "start"
         ELSE /\ main_pc' = "exited"
              /\ UNCHANGED wake
    /\ UNCHANGED << block_devices, demo >>

\* The demo is over: main returns when the write of nrf_test.txt failed,
\* otherwise it goes on to the main loop.
main_tests_done ==
    /\ main_pc = "running"
    /\ main_pc' = (IF fcall.op = "write_file" /\ api_ret # 0
                   THEN "exited" ELSE "main_loop")
    /\ UNCHANGED << block_devices, demo, wake >>

\* One turn of while (1): the flag is looked at, else the blue LED toggles.
main_loop ==
    /\ main_pc = "main_loop"
    /\ IF wake.sleep_requested
       THEN /\ main_pc' = "deep_sleep"
            /\ UNCHANGED wake
       ELSE /\ wake' = [wake EXCEPT !.leds = << @[1], 1 - @[2] >>]
            /\ UNCHANGED main_pc
    /\ UNCHANGED << block_devices, demo >>

\* enter_deep_sleep: the countdown, LEDs off, then System OFF
enter_deep_sleep ==
    /\ main_pc = "deep_sleep"
    /\ wake' = SystemOff(wake)
    /\ main_pc' = "system_off"
    /\ UNCHANGED << block_devices, demo >>

InitMain ==
    /\ BlockLayerInit({FLASH1_SIZE_MB_DEFAULT}, {0}, 0)
    /\ \E p \in {0, 1} :
         FileLayerInitAt("reset", WakeAtReset(p),
                         {<< UsedFs, EmptyFs >>, << BlankDisk, BlankDisk >>},
                         MaxMainCalls)
    /\ thread2 = Thread2Idle(0)
    /\ chip1_id = addr_bytes(FLASH1_CHIP_JEDEC_ID)
    /\ flash1_initialized = FALSE

NextMain ==
    \/ wake_pin_falls
    \/ wake_pin_rises
    \/ wakeup_pin_callback
    \/ main
    \/ main_wake_check
    \/ main_gpio_setup
    \/ nor_flash_system_init
    \/ nor_flash_system_init_flash2
    \/ lfs_init_mount
    \/ lfs_init_mount_format
    \/ lfs_init_mount_remount
    \/ main_after_init
    \/ nor_flash_write_file
    \/ nor_flash_write_file_write
    \/ nor_flash_write_file_close
    \/ nor_flash_read_file
    \/ nor_flash_read_file_read
    \/ nor_flash_read_file_close
    \/ nor_flash_get_file_size
    \/ main_tests_done
    \/ main_loop
    \/ enter_deep_sleep

\* main is a thread that keeps running: a turn of the main loop and the way
\* into System OFF are taken when they can be.
SpecMain ==
    /\ InitMain
    /\ [][NextMain]_vars
    /\ WF_vars(main_loop)
    /\ WF_vars(enter_deep_sleep)



(***************************************************************************)
(* Reading the history of a call.                                          *)
(***************************************************************************)
Returned(op) == pc = "idle" /\ call.op = op

\* A chip-select window that did what the driver needed: the transfer
\* succeeded and, for status polls, the last status read was not busy.
EntryOK(e) ==
    /\ e.ok
    /\ e.cmd = CMD_READ_STATUS => BitAnd(e.status, SR_BUSY) = 0

PPEntries(log) == {k \in 1..Len(log) : log[k].cmd = CMD_PAGE_PROGRAM}

\* Data bytes the page programs before entry k carried.
RECURSIVE SentBefore(_, _)
SentBefore(log, k) ==
    IF k <= 1 THEN 0
    ELSE SentBefore(log, k - 1) +
         (IF log[k - 1].cmd = CMD_PAGE_PROGRAM THEN log[k - 1].len ELSE 0)

(***************************************************************************)
(* C1: every page program flash1_prog_data issues carries 1..256 data     *)
(* bytes that stay inside one 256-byte page, comes right after a          *)
(* write-enable window of its own, and is followed by the status polls of *)
(* flash1_wait_ready, which end with a ready status before the next       *)
(* segment's write-enable.                                                *)
(***************************************************************************)
C1_PageProgramSegments ==
    \A k \in PPEntries(bus_log) :
        LET e == bus_log[k]
        IN  /\ e.len >= 1
            /\ e.len <= FLASH_PAGE_SIZE
            /\ (e.addr % FLASH_PAGE_SIZE) + e.len <= FLASH_PAGE_SIZE
            /\ e.txlen <= 4 + FLASH_PAGE_SIZE
            /\ k > 1
            /\ bus_log[k - 1].cmd = CMD_WRITE_ENABLE
            /\ bus_log[k - 1].ok
            /\ k < Len(bus_log) => bus_log[k + 1].cmd = CMD_READ_STATUS
            /\ k + 1 < Len(bus_log) =>
                  /\ EntryOK(bus_log[k + 1])
                  /\ bus_log[k + 2].cmd = CMD_WRITE_ENABLE
            /\ (pc = "idle" /\ k = Len(bus_log)) => ~e.ok

\* A program of three segments has returned success.
C1_Witness ==
    /\ Returned("lfs1_prog")
    /\ ret = LFS_ERR_OK
    /\ Cardinality(PPEntries(bus_log)) = 3

(***************************************************************************)
(* C2: flash1_prog_data returns 0 exactly when every write-enable, page   *)
(* program and busy-poll of every segment succeeded; nothing is issued    *)
(* after the first failing step, the error is -EIO, and the segments      *)
(* programmed before it stay programmed.                                  *)
(***************************************************************************)
C2_ProgAbortsAtFirstFailure ==
    call.op = "lfs1_prog" =>
        /\ \A k \in 1..(Len(bus_log) - 1) : EntryOK(bus_log[k])
        /\ pc = "idle" =>
              /\ drv_ret = 0 <=>
                    /\ \A k \in 1..Len(bus_log) : EntryOK(bus_log[k])
                    /\ SentBefore(bus_log, Len(bus_log) + 1) = call.size
              /\ drv_ret # 0 => drv_ret = -EIO
              /\ \A k \in PPEntries(bus_log) :
                    bus_log[k].ok =>
                       \A i \in 1..bus_log[k].len :
                          MemAt(chip1_mem, bus_log[k].addr + i - 1) =
                             ByteAnd(MemAt(mem_before[1], bus_log[k].addr + i - 1),
                                     Buf(call.size)[SentBefore(bus_log, k) + i])

\* A program has failed after its first segment was programmed.
C2_Witness ==
    /\ Returned("lfs1_prog")
    /\ drv_ret = -EIO
    /\ \E k \in PPEntries(bus_log) : bus_log[k].ok /\ k + 1 < Len(bus_log)


(***************************************************************************)
(* C3: a buffer programmed by a successful flash1_prog_data into an       *)
(* erased region that straddles a page boundary (more than 256 bytes      *)
(* included) is read back byte for byte by a successful read of the same  *)
(* range.                                                                 *)
(***************************************************************************)
Straddles(off, sz) == page_off(off) + sz > FLASH_PAGE_SIZE

ReadBackOf(p) ==
    /\ Returned("lfs1_read")
    /\ ret = LFS_ERR_OK
    /\ p.valid /\ p.ok /\ p.erased
    /\ call.block = p.block /\ call.off = p.off /\ call.size = p.size

C3_ReadBackAcrossPages ==
    (ReadBackOf(last_prog1) /\ Straddles(call.off, call.size)) =>
        rx = Buf(call.size)

\* 300 bytes programmed at offset 250 (three pages) have been read back.
C3_Witness ==
    /\ ReadBackOf(last_prog1)
    /\ call.size > FLASH_PAGE_SIZE
    /\ page_off(call.off) # 0
    /\ rx = Buf(call.size)

(***************************************************************************)
(* C4: with a healthy transport the Flash1 read callback succeeds for     *)
(* every length, lengths above 512 bytes included.                        *)
(***************************************************************************)
C4_ReadAnyLength ==
    (Returned("lfs1_read") /\ \A k \in 1..Len(bus_log) : bus_log[k].ok) =>
        ret = LFS_ERR_OK

(***************************************************************************)
(* C5: flash1_wait_ready ends after at most 1000 status reads: with 0 at  *)
(* the first read that is not busy, with -ETIMEDOUT when all 1000 reads   *)
(* were busy, with -EIO at the first read the transport fails, and it     *)
(* polls no more after any of these.                                      *)
(***************************************************************************)
WaitPcs == {"prog_wait", "erase_wait"}

\* The last window of the log is a poll sequence flash1_wait_ready has left.
WaitReturned ==
    /\ pc \notin WaitPcs
    /\ Len(bus_log) > 0
    /\ bus_log[Len(bus_log)].cmd = CMD_READ_STATUS

C5_WaitReadyBounded ==
    /\ poll_i <= WAIT_READY_POLLS
    /\ \A k \in 1..Len(bus_log) :
          bus_log[k].cmd = CMD_READ_STATUS =>
             /\ bus_log[k].n <= WAIT_READY_POLLS
             /\ bus_log[k].busy >= bus_log[k].n - 1
    /\ WaitReturned =>
          LET e == bus_log[Len(bus_log)]
              busy_now == BitAnd(e.status, SR_BUSY) # 0
          IN  /\ wait_ret \in {0, -ETIMEDOUT, -EIO}
              /\ wait_ret = 0 <=> (e.ok /\ ~busy_now)
              /\ wait_ret = -ETIMEDOUT <=>
                    (e.ok /\ busy_now /\ e.n = WAIT_READY_POLLS
                          /\ e.busy = WAIT_READY_POLLS)
              /\ wait_ret = -EIO <=> ~e.ok
              /\ wait_ret # -ETIMEDOUT => e.busy = e.n - 1

\* flash1_wait_ready has timed out after 1000 busy polls.
C5_Witness ==
    /\ WaitReturned
    /\ wait_ret = -ETIMEDOUT
    /\ bus_log[Len(bus_log)].n = WAIT_READY_POLLS

\* flash1_wait_ready has succeeded at its 1000th poll.
C5_WitnessLastPoll ==
    /\ WaitReturned
    /\ wait_ret = 0
    /\ bus_log[Len(bus_log)].n = WAIT_READY_POLLS


(***************************************************************************)
(* C6: flash1_erase_sector issues one write-enable (0x06), then one       *)
(* sector erase (0x20 and the 3 address bytes), then the status polls,    *)
(* each in a chip-select window of its own; a failed write-enable is      *)
(* followed by no erase command, a failed erase command by no poll, and   *)
(* the call returns 0 only if all three steps succeeded.                  *)
(***************************************************************************)
C6_EraseSequence ==
    call.op = "lfs1_erase" =>
        /\ Len(bus_log) <= 3
        /\ Len(bus_log) >= 1 =>
              /\ bus_log[1].cmd = CMD_WRITE_ENABLE
              /\ bus_log[1].txlen = 1
        /\ Len(bus_log) >= 2 =>
              /\ bus_log[1].ok
              /\ bus_log[2].cmd = CMD_SECTOR_ERASE
              /\ bus_log[2].txlen = 4
              /\ bus_log[2].addr = lfs_addr(call.block, 0) % ADDR24_MOD
        /\ Len(bus_log) >= 3 =>
              /\ bus_log[2].ok
              /\ bus_log[3].cmd = CMD_READ_STATUS
        /\ pc = "idle" =>
              /\ Len(bus_log) >= 1
              /\ drv_ret = 0 <=>
                    (Len(bus_log) = 3 /\ \A k \in 1..3 : EntryOK(bus_log[k]))

\* An erase has returned success after two status polls.
C6_Witness ==
    /\ Returned("lfs1_erase")
    /\ ret = LFS_ERR_OK
    /\ Len(bus_log) = 3
    /\ bus_log[3].n = 2

(***************************************************************************)
(* C7: after a successful lfs1_erase of block b every byte of the sector  *)
(* at b*4096 reads 0xFF and no byte outside that sector has changed.      *)
(***************************************************************************)
InSector(a, block) ==
    /\ a >= block * FLASH_SECTOR_SIZE
    /\ a < (block + 1) * FLASH_SECTOR_SIZE

C7_EraseOnlyItsSector ==
    (Returned("lfs1_erase") /\ ret = LFS_ERR_OK) =>
        /\ \A a \in DOMAIN chip1_mem : ~InSector(a, call.block)
        /\ \A a \in DOMAIN mem_before[1] \cup DOMAIN chip1_mem :
              ~InSector(a, call.block) =>
                 MemAt(chip1_mem, a) = MemAt(mem_before[1], a)

\* The same for the build with the 16 MB chip alone.
EraseOnlyItsSector16MB ==
    flash1_size_mb = FLASH1_SIZE_MB_DEFAULT => C7_EraseOnlyItsSector

(***************************************************************************)
(* C8: in every build of Flash1 the address the read, program and erase   *)
(* commands carry is block*4096+offset (plus the bytes already programmed *)
(* for a later segment) of the callback that issued them.                 *)
(***************************************************************************)
C8_TransmittedAddress ==
    \A k \in 1..Len(bus_log) :
        bus_log[k].cmd \in {CMD_READ_DATA, CMD_PAGE_PROGRAM, CMD_SECTOR_ERASE} =>
            bus_log[k].addr =
                call.block * FLASH_SECTOR_SIZE + call.off +
                (IF bus_log[k].cmd = CMD_PAGE_PROGRAM
                 THEN SentBefore(bus_log, k) ELSE 0)

\* The same for the build with the 16 MB chip alone.
TransmittedAddress16MB ==
    flash1_size_mb = FLASH1_SIZE_MB_DEFAULT => C8_TransmittedAddress

(***************************************************************************)
(* C9: the read, prog and erase callbacks of both backends return         *)
(* LFS_ERR_OK when the driver function or vendor primitive returned 0 and *)
(* LFS_ERR_IO for every other value of it, and nothing else.              *)
(***************************************************************************)
IoCallbacks == {"lfs1_read", "lfs1_prog", "lfs1_erase",
                "lfs2_read", "lfs2_prog", "lfs2_erase"}

C9_CallbackReturnCodes ==
    (pc = "idle" /\ call.op \in IoCallbacks) =>
        /\ ret \in {LFS_ERR_OK, LFS_ERR_IO}
        /\ drv_ret = 0 => ret = LFS_ERR_OK
        /\ drv_ret # 0 => ret = LFS_ERR_IO

\* A Flash1 read whose transfer timed out on the bus has returned.
C9_Witness ==
    /\ Returned("lfs1_read")
    /\ drv_ret = -ETIMEDOUT
    /\ ret = LFS_ERR_IO

\* A Flash2 program the vendor primitive rejected has returned.
C9_WitnessVendor ==
    /\ Returned("lfs2_prog")
    /\ drv_ret = -EINVAL
    /\ ret = LFS_ERR_IO

(***************************************************************************)
(* C10: lfs1_sync and lfs2_sync return LFS_ERR_OK, open no chip-select    *)
(* window, call no vendor primitive and leave both flash memories, the    *)
(* chip-select level and the state of chip and driver as they were.       *)
(***************************************************************************)
SyncStep ==
    /\ call'.op \in {"lfs1_sync", "lfs2_sync"}
    /\ calls_left' # calls_left

C10_SyncIsNoOp ==
    [][SyncStep =>
         /\ ret' = LFS_ERR_OK
         /\ pc' = "idle"
         /\ bus_log' = << >>
         /\ UNCHANGED << chip1_mem, chip1_wel, chip1_busy, flash2_mem, cs_pin,
                         addr, size, data_off, poll_i, tx, rx_len, tx_ret, rx,
                         flash1_size_mb, chip1_tprog >>]_vars

\* A sync has returned after a program changed the Flash2 memory.
C10_Witness ==
    /\ Returned("lfs2_sync")
    /\ ret = LFS_ERR_OK
    /\ flash2_mem # InitMem

(***************************************************************************)
(* Reading the history of the File API layer.                              *)
(***************************************************************************)
Ok(e) == e.res = LFS_ERR_OK

Calls(log, fn) == {k \in 1..Len(log) : log[k].fn = fn}

\* The library calls of an lfs_init_mount that ended Mounted / in failure.
MountedLog(log) ==
    \/ Len(log) = 1 /\ log[1].fn = "lfs_mount" /\ Ok(log[1])
    \/ /\ Len(log) = 3
       /\ log[1].fn = "lfs_mount" /\ ~Ok(log[1])
       /\ log[2].fn = "lfs_format" /\ Ok(log[2])
       /\ log[3].fn = "lfs_mount" /\ Ok(log[3])

FatalLog(log) ==
    \/ /\ Len(log) = 2
       /\ log[1].fn = "lfs_mount" /\ ~Ok(log[1])
       /\ log[2].fn = "lfs_format" /\ ~Ok(log[2])
    \/ /\ Len(log) = 3
       /\ log[1].fn = "lfs_mount" /\ ~Ok(log[1])
       /\ log[2].fn = "lfs_format" /\ Ok(log[2])
       /\ log[3].fn = "lfs_mount" /\ ~Ok(log[3])

\* lfs_init_mount of instance l has returned in this boot.
InitMountReturned(l) ==
    /\ mount_log[l] # << >>
    /\ ~(init_dev = l /\ main_pc \in {"init_mount", "init_format", "init_remount"})

MountStateOK(l) ==
    /\ Cardinality(Calls(mount_log[l], "lfs_format")) <= 1
    /\ Cardinality(Calls(mount_log[l], "lfs_mount")) <= 2
    /\ mount_state[l] = "Unmounted" <=> mount_log[l] = << >>
    /\ InitMountReturned(l) <=> mount_state[l] \in {"Mounted", "FatalInitFailure"}
    /\ mount_state[l] = "Mounted" <=> InitMountReturned(l) /\ MountedLog(mount_log[l])
    /\ mount_state[l] = "FatalInitFailure"
         <=> InitMountReturned(l) /\ FatalLog(mount_log[l])
    /\ mount_state[l] = "FatalInitFailure"
         => init_ret = -EIO /\ main_pc \in {"init_done", "exited"}
    /\ mount_state[l] = "Mounted" /\ l = 1
         => \/ init_dev = 2 /\ main_pc \in {"init_mount", "init_format", "init_remount"}
            \/ main_pc \in {"init_done", "exited"} /\ init_ret = -EIO
            \/ mount_state[2] = "Mounted"

(***************************************************************************)
(* C11: a call of lfs_init_mount ends Mounted exactly when its first mount *)
(* succeeded, or its first mount failed and the format and the second      *)
(* mount succeeded; otherwise it ends in FatalInitFailure and              *)
(* nor_flash_system_init returns an error.  It formats at most once and    *)
(* mounts at most twice, and until the next reset no step leaves Mounted   *)
(* or FatalInitFailure.                                                    *)
(***************************************************************************)
C11_MountStateMachine ==
    /\ [](\A l \in LfsInstances : MountStateOK(l))
    /\ [][\A l \in LfsInstances :
            mount_state[l] \in {"Mounted", "FatalInitFailure"} /\ boots' = boots
              => mount_state'[l] = mount_state[l]]_vars

C11_Witness ==
    /\ mount_state[1] = "Mounted"
    /\ Len(mount_log[1]) = 3
    /\ mount_state[2] = "FatalInitFailure"
    /\ Len(mount_log[2]) = 3

(***************************************************************************)
(* C12: lfs_init_mount never formats an instance whose first mount         *)
(* succeeded; after such a mount, in the first boot and after every reset, *)
(* the chip holds what it held at the reset, and a file a write has        *)
(* committed keeps its size and content.                                   *)
(***************************************************************************)
FirstMountOk(l) == mount_log[l] # << >> /\ Ok(mount_log[l][1])

C12_NoFormatAfterGoodMount ==
    \A l \in LfsInstances :
      /\ FirstMountOk(l) => Calls(mount_log[l], "lfs_format") = {}
      /\ FirstMountOk(l) /\ fcall = NoFCall => disk[l] = disk_at_boot[l]
      /\ \A n \in FileNames :
           written[l][n].known /\ written[l][n].committed
             => disk[l].files[n] = RegFile(written[l][n].data)

C12_Witness ==
    /\ boots = 1
    /\ main_pc = "running"
    /\ FirstMountOk(1)
    /\ written[1]["nrf_test.txt"].known
    /\ written[1]["nrf_test.txt"].committed
    /\ disk[1].files["nrf_test.txt"] = RegFile(<< 72, 105 >>)

(***************************************************************************)
(* C13: when flash1_init or flash2_init fails, or a format or a mount      *)
(* after format fails, nor_flash_system_init returns non-zero and main     *)
(* returns without a File API call; a File API call is made only after     *)
(* nor_flash_system_init has returned 0 with both instances Mounted.       *)
(***************************************************************************)
InitPcs == {"start", "init_flash2", "init_mount", "init_format", "init_remount"}

InitStepFailed ==
    \/ \E k \in 1..Len(chip_log) : chip_log[k] # 0
    \/ \E l \in LfsInstances : InitMountReturned(l) /\ FatalLog(mount_log[l])

FileOpIssued == fcall # NoFCall \/ main_pc \notin (InitPcs \cup {"init_done", "exited", "running"})

C13_InitFailureStopsStartup ==
    /\ InitStepFailed
         => /\ main_pc \in {"init_done", "exited"}
            /\ init_ret # 0
            /\ ~FileOpIssued
    /\ main_pc = "exited" => init_ret # 0 /\ ~FileOpIssued
    /\ FileOpIssued \/ main_pc = "running"
         => /\ init_ret = 0
            /\ chip_log = << 0, 0 >>
            /\ \A l \in LfsInstances : mount_state[l] = "Mounted"

C13_Witness ==
    /\ main_pc = "exited"
    /\ chip_log = << 0, 0 >>
    /\ mount_state[1] = "Mounted"
    /\ mount_state[2] = "FatalInitFailure"
    /\ Len(mount_log[2]) = 2

(***************************************************************************)
(* C14: in nor_flash_write_file and nor_flash_read_file an open that       *)
(* succeeded is followed by one write or read and exactly one close of     *)
(* that handle before the call returns, whatever the write or read         *)
(* returned; an open that failed is followed by no library call.  Between  *)
(* File API calls no instance holds an open file.                          *)
(***************************************************************************)
OpenPcs == {"write_file_write", "write_file_close", "read_file_read", "read_file_close"}

HandleOps == {"write_file", "write_struct", "read_file", "read_struct"}

ApiReturned(ops) == main_pc = "running" /\ fcall.op \in ops

TransferOf(op) ==
    IF op \in {"write_file", "write_struct"} THEN "lfs_file_write" ELSE "lfs_file_read"

C14_OpenThenOneClose ==
    /\ \A l \in LfsInstances :
         /\ open_handles[l] \in {0, 1}
         /\ open_handles[l] = 1 <=> main_pc \in OpenPcs /\ file.open /\ file.lfs = l
    /\ main_pc \notin OpenPcs => file = NoFile
    /\ ApiReturned(HandleOps)
         => /\ lfs_log[1].fn = "lfs_file_open"
            /\ lfs_log[1].res < 0 => Len(lfs_log) = 1
            /\ lfs_log[1].res >= 0
                 => /\ Len(lfs_log) = 3
                    /\ lfs_log[2].fn = TransferOf(fcall.op)
                    /\ lfs_log[3].fn = "lfs_file_close"
                    /\ \A k \in 1..3 : lfs_log[k].lfs = lfs_select(fcall.device)
    /\ ApiReturned({"get_file_size"})
         => Len(lfs_log) = 1 /\ lfs_log[1].fn = "lfs_stat"

C14_Witness ==
    /\ ApiReturned({"write_file"})
    /\ Len(lfs_log) = 3
    /\ lfs_log[2].res < 0
    /\ lfs_log[3].fn = "lfs_file_close"
    /\ open_handles = [l \in LfsInstances |-> 0]

(***************************************************************************)
(* C15: after nor_flash_write_file (or nor_flash_write_struct) has         *)
(* returned 0 for buffer B, a nor_flash_read_file of len(B) bytes of that  *)
(* name that does not fail returns len(B) and fills the buffer with B, and *)
(* a nor_flash_read_struct of that size that returns 0 fills it with B.    *)
(***************************************************************************)
WrittenOf(c) == written[lfs_select(c.device)][c.name]

ReadBack(w) ==
    /\ ApiReturned({"read_file"}) /\ fcall.len = Len(w.data) /\ api_ret >= 0
         => api_ret = Len(w.data) /\ buffer = w.data
    /\ ApiReturned({"read_struct"}) /\ fcall.len = Len(w.data) /\ api_ret = 0
         => buffer = w.data

C15_WriteThenReadBack ==
    ApiReturned({"read_file", "read_struct"}) /\ WrittenOf(fcall).known
      => ReadBack(WrittenOf(fcall))

\* The same for a write whose lfs_file_close returned LFS_ERR_OK.
ReadBackWhenCommitted ==
    /\ ApiReturned({"read_file", "read_struct"})
    /\ WrittenOf(fcall).known
    /\ WrittenOf(fcall).committed
    => ReadBack(WrittenOf(fcall))

ReadBackWhenCommittedWitness ==
    /\ ApiReturned({"read_struct"})
    /\ WrittenOf(fcall).known
    /\ WrittenOf(fcall).committed
    /\ fcall.len = 2
    /\ api_ret = 0
    /\ buffer = << 72, 105 >>

(***************************************************************************)
(* C16: when nor_flash_write_file has returned 0 for buffer B2, the file   *)
(* holds exactly B2 (size len(B2)), whatever it held before, a longer      *)
(* content included.                                                       *)
(***************************************************************************)
FileOf(c) == disk[lfs_select(c.device)].files[c.name]

WriteOps == {"write_file", "write_struct"}

C16_OverwriteAndTruncate ==
    ApiReturned(WriteOps) /\ api_ret = 0 => FileOf(fcall) = RegFile(fcall.data)

\* The same for a write whose lfs_file_close returned LFS_ERR_OK.
OverwriteWhenCommitted ==
    ApiReturned(WriteOps) /\ api_ret = 0 /\ Ok(lfs_log[Len(lfs_log)])
      => FileOf(fcall) = RegFile(fcall.data)

OverwriteWhenCommittedWitness ==
    /\ ApiReturned(WriteOps) /\ api_ret = 0 /\ Ok(lfs_log[Len(lfs_log)])
    /\ boots = 0
    /\ FirstMountOk(lfs_select(fcall.device))
    /\ disk_at_boot[lfs_select(fcall.device)] = UsedFs
    /\ fs_calls_left = MaxFsCalls - 1
    /\ fcall.data = << 72 >>
    /\ FileOf(fcall) = RegFile(<< 72 >>)

(***************************************************************************)
(* C17: nor_flash_read_struct returns 0 exactly when nor_flash_read_file   *)
(* returned the record size; it returns -EIO when fewer bytes were read    *)
(* (a stored file shorter than the record is never reported as valid), and *)
(* the value of nor_flash_read_file unchanged when that is negative.       *)
(***************************************************************************)
\* What nor_flash_read_file returned inside the read call that has returned.
ReadFileReturned ==
    IF lfs_log[1].res < 0 THEN lfs_log[1].res ELSE lfs_log[2].res

C17_ReadStructSizeCheck ==
    ApiReturned({"read_struct"})
      => /\ api_ret = 0 <=> ReadFileReturned = fcall.len
         /\ ReadFileReturned < 0 => api_ret = ReadFileReturned
         /\ ReadFileReturned >= 0 /\ ReadFileReturned # fcall.len => api_ret = -EIO
         /\ FileOf(fcall).type = "reg" /\ Len(FileOf(fcall).data) < fcall.len
              => api_ret < 0

C17_Witness ==
    /\ ApiReturned({"read_struct"})
    /\ FileOf(fcall) = RegFile(<< 72 >>)
    /\ fcall.len = 2
    /\ ReadFileReturned = 1
    /\ api_ret = -EIO

(***************************************************************************)
(* C18: the values by which nor_flash_read_struct reports a missing file,  *)
(* a size mismatch and an I/O error of the filesystem are pairwise         *)
(* different: a call that ended for one of these reasons returns a value   *)
(* that stands for neither of the other two.                               *)
(***************************************************************************)
\* Why the read call that has returned did not deliver the record.
ReadFailure ==
    IF lfs_log[1].res = LFS_ERR_NOENT THEN "NotFound"
    ELSE IF \E k \in 1..Len(lfs_log) : lfs_log[k].res = LFS_ERR_IO THEN "IoError"
    ELSE IF Len(lfs_log) >= 2 /\ lfs_log[2].res >= 0 /\ lfs_log[2].res # fcall.len
    THEN "SizeMismatch"
    ELSE "none"

\* The value nor_flash_read_struct returns for each reason (record of 1 byte).
NotFoundValue == read_struct_result(open_failed_result(LFS_ERR_NOENT), 1)

IoErrorValue == read_struct_result(LFS_ERR_IO, 1)

SizeMismatchValue == read_struct_result(0, 1)

C18_ErrorTaxonomyDistinct ==
    ApiReturned({"read_struct"})
      => /\ ReadFailure = "NotFound" => api_ret \notin {SizeMismatchValue, IoErrorValue}
         /\ ReadFailure = "SizeMismatch" => api_ret \notin {NotFoundValue, IoErrorValue}
         /\ ReadFailure = "IoError" => api_ret \notin {NotFoundValue, SizeMismatchValue}

\* A missing file is told apart from both.
NotFoundValueDistinct ==
    ApiReturned({"read_struct"})
      => /\ ReadFailure = "NotFound" => api_ret \notin {SizeMismatchValue, IoErrorValue}
         /\ ReadFailure \in {"SizeMismatch", "IoError"} => api_ret # NotFoundValue

(***************************************************************************)
(* C19: nor_flash_read_file and nor_flash_read_struct on a name that has   *)
(* no entry return the value of the failed lfs_file_open unchanged, which  *)
(* is -ENOENT when the open reported the missing entry; they return        *)
(* -ENOENT in no other case, and they neither read nor close nor touch     *)
(* the caller's buffer.                                                    *)
(***************************************************************************)
ReadOps == {"read_file", "read_struct"}

C19_NotFoundUnchanged ==
    ApiReturned(ReadOps)
      => /\ FileOf(fcall).type = "none"
              => /\ lfs_log[1].res < 0
                 /\ api_ret = lfs_log[1].res
                 /\ Len(lfs_log) = 1
                 /\ buffer = ClearBuffer(fcall.len)
         /\ lfs_log[1].res = LFS_ERR_NOENT => api_ret = -ENOENT
         /\ api_ret = -ENOENT
              => FileOf(fcall).type = "none" /\ lfs_log[1].res = LFS_ERR_NOENT

C19_Witness ==
    /\ ApiReturned({"read_struct"})
    /\ FileOf(fcall).type = "none"
    /\ api_ret = -ENOENT
    /\ Len(lfs_log) = 1
    /\ buffer = << 0, 0 >>

(***************************************************************************)
(* C20: nor_flash_get_file_size returns a negative value (LFS_ERR_NOENT    *)
(* when lfs_stat reports the missing entry) for a name that has no entry,  *)
(* and, when it does not fail, len(B) for a name for which                 *)
(* nor_flash_write_file has returned 0 with buffer B, the empty buffer     *)
(* included.                                                               *)
(***************************************************************************)
SizeOfMissing ==
    ApiReturned({"get_file_size"}) /\ FileOf(fcall).type = "none"
      => /\ api_ret < 0
         /\ lfs_log[1].res = LFS_ERR_NOENT => api_ret = -ENOENT

C20_FileSizeAfterWrite ==
    /\ SizeOfMissing
    /\ ApiReturned({"get_file_size"}) /\ WrittenOf(fcall).known /\ api_ret >= 0
         => api_ret = Len(WrittenOf(fcall).data)

\* The same for a write whose lfs_file_close returned LFS_ERR_OK.
FileSizeWhenCommitted ==
    /\ SizeOfMissing
    /\ ApiReturned({"get_file_size"}) /\ WrittenOf(fcall).known
       /\ WrittenOf(fcall).committed /\ api_ret >= 0
         => api_ret = Len(WrittenOf(fcall).data)

FileSizeWhenCommittedWitness ==
    /\ ApiReturned({"get_file_size"})
    /\ WrittenOf(fcall).known
    /\ WrittenOf(fcall).committed
    /\ WrittenOf(fcall).data = << >>
    /\ disk_at_boot[lfs_select(fcall.device)] = UsedFs
    /\ api_ret = 0
    /\ lfs_log[1].res = LFS_ERR_OK

(***************************************************************************)
(* C21: nor_flash_get_file_size on a name that is a directory returns      *)
(* -EISDIR and no size; on every name the call consists of one lfs_stat,   *)
(* opens no file handle and changes nothing of the filesystems.            *)
(***************************************************************************)
GetFileSizeStep == fs_calls_left' # fs_calls_left /\ fcall'.op = "get_file_size"

C21_GetFileSizeOnDirectory ==
    /\ [](ApiReturned({"get_file_size"})
            => /\ Len(lfs_log) = 1 /\ lfs_log[1].fn = "lfs_stat"
               /\ file = NoFile
               /\ \A l \in LfsInstances : open_handles[l] = 0
               /\ FileOf(fcall).type = "dir" /\ Ok(lfs_log[1])
                    => api_ret = -EISDIR)
    /\ [][GetFileSizeStep
            => /\ disk' = disk
               /\ open_handles' = open_handles
               /\ mount_state' = mount_state
               /\ file' = file
               /\ main_pc' = "running"]_vars

C21_Witness ==
    /\ ApiReturned({"get_file_size"})
    /\ FileOf(fcall).type = "dir"
    /\ Ok(lfs_log[1])
    /\ api_ret = -EISDIR

(***************************************************************************)
(* C22: a File API call with selector FLASH1 reaches only lfs1 and one     *)
(* with FLASH2 only lfs2: every library call of the call names the         *)
(* instance of its selector, no step of the call changes the files, the    *)
(* open handles or the mount state of the other instance, and a name that  *)
(* has no entry on the selected device is reported missing whatever the    *)
(* other device holds.                                                     *)
(***************************************************************************)
ApiStep == fs_calls_left' # fs_calls_left \/ main_pc \in OpenPcs

RoutedToSelector ==
    /\ IF fcall.device = FLASH1
       THEN \A k \in 1..Len(lfs_log) : lfs_log[k].lfs = 1
       ELSE \A k \in 1..Len(lfs_log) : lfs_log[k].lfs = 2
    /\ file.open => file.lfs = (IF fcall.device = FLASH1 THEN 1 ELSE 2)
    /\ ApiReturned(ReadOps \cup {"get_file_size"})
       /\ disk[IF fcall.device = FLASH1 THEN 1 ELSE 2].files[fcall.name].type = "none"
         => api_ret < 0

C22_DeviceIsolation ==
    /\ []RoutedToSelector
    /\ [][ApiStep
            => LET o == IF fcall'.device = FLASH1 THEN 2 ELSE 1
               IN  /\ disk'[o] = disk[o]
                   /\ open_handles'[o] = open_handles[o]
                   /\ written'[o] = written[o]
                   /\ mount_state' = mount_state]_vars

\* Written on Flash1 and committed, then looked for on Flash2: not there.
C22_Witness ==
    /\ ApiReturned(ReadOps \cup {"get_file_size"})
    /\ fcall.device = FLASH2
    /\ written[1][fcall.name].known
    /\ written[1][fcall.name].committed
    /\ disk[1].files[fcall.name] = RegFile(<< 72, 105 >>)
    /\ disk[2] = EmptyFs
    /\ api_ret = -ENOENT

(***************************************************************************)
(* C23: with thread one on the Flash1 callbacks and thread two on the      *)
(* Flash2 callbacks, in every interleaving no step of one thread changes   *)
(* anything the other thread or its chip owns, the Flash1 memory is at     *)
(* every moment what thread one's own transactions make of the memory at   *)
(* its call, a read of thread one returns the bytes of that memory, and    *)
(* the Flash2 memory and the read data of thread two are what its own      *)
(* call makes of the memory at its call: the outcomes of the two calls     *)
(* run one after the other.                                                *)
(***************************************************************************)
\* The Flash1 memory after the first k chip-select windows of log, replayed
\* on mem0 (a program or erase acts when the write-enable before it did).
RECURSIVE SeqChip1(_, _, _)
SeqChip1(mem0, log, k) ==
    IF k = 0 THEN mem0
    ELSE LET m == SeqChip1(mem0, log, k - 1)
             e == log[k]
             armed == k > 1 /\ log[k - 1].cmd = CMD_WRITE_ENABLE /\ log[k - 1].ok
         IN  IF e.ok /\ armed /\ e.cmd = CMD_PAGE_PROGRAM
             THEN ChipPageProgram(m, e.addr,
                      SubSeq1(Buf(call.size), SentBefore(log, k), e.len))
             ELSE IF e.ok /\ armed /\ e.cmd = CMD_SECTOR_ERASE
             THEN ChipSectorErase(m, e.addr, FLASH_SECTOR_SIZE)
             ELSE m

\* The Flash2 memory after the call of thread two, run on the memory at its call.
SeqFlash2 ==
    LET c == thread2.call
        a == lfs_addr(c.block, c.off)
    IN  IF thread2.pc # "idle" \/ thread2.ret # LFS_ERR_OK THEN thread2.mem_before
        ELSE IF c.op = "lfs2_prog" THEN flash_write(thread2.mem_before, a, Buf(c.size))
        ELSE IF c.op = "lfs2_erase"
             THEN flash_erase(thread2.mem_before, a, FLASH_SECTOR_SIZE)
        ELSE thread2.mem_before

AsSequential ==
    /\ chip1_mem = SeqChip1(mem_before[1], bus_log, Len(bus_log))
    /\ Returned("lfs1_read") /\ ret = LFS_ERR_OK
         => rx = ChipRead(mem_before[1], lfs_addr(call.block, call.off) % ADDR24_MOD,
                          call.size)
    /\ flash2_mem = SeqFlash2
    /\ thread2.pc = "idle" /\ thread2.call.op = "lfs2_read" /\ thread2.ret = LFS_ERR_OK
         => thread2.rx = flash_read(thread2.mem_before,
                                    lfs_addr(thread2.call.block, thread2.call.off),
                                    thread2.call.size)

C23_ThreadsDoNotInterfere ==
    /\ []AsSequential
    /\ [][/\ thread2' # thread2
             => UNCHANGED << thread1, chip1_mem, chip1_wel, chip1_busy >>
          /\ thread1' # thread1
             => UNCHANGED << thread2, flash2_mem >>]_vars

\* Thread two is inside flash_write while thread one, its first segment
\* programmed, is inside the chip-select window of its second page program.
C23_Witness ==
    /\ thread2.pc = "flash_write"
    /\ call.op = "lfs1_prog"
    /\ pc = "prog_pp"
    /\ cs_pin = 0
    /\ Cardinality(PPEntries(bus_log)) = 2
    /\ chip1_mem # mem_before[1]

(***************************************************************************)
(* C24: with one caller on the Flash1 transport (an operation starts only  *)
(* when the one before has returned) a chip-select window is open only     *)
(* inside the running operation, never when an operation starts or has     *)
(* returned; every program or erase command comes right after the          *)
(* successful write-enable of its own operation, with the latch still set; *)
(* every status poll comes right after the command of its own operation    *)
(* or the poll before it; and no operation returns (so none starts)        *)
(* between a successful write-enable and its command or between a          *)
(* successful command and its first poll.                                  *)
(***************************************************************************)
LastWindow(log) == log[Len(log)]

ArmCmds == {CMD_PAGE_PROGRAM, CMD_SECTOR_ERASE}

\* A write-enable or command went through and what it leads to is still due.
OpenSequence(log) ==
    /\ log # << >>
    /\ LastWindow(log).ok
    /\ LastWindow(log).cmd \in (ArmCmds \cup {CMD_WRITE_ENABLE})

OperationStarts == calls_left' # calls_left

WindowOpens == cs_pin = 1 /\ cs_pin' = 0

C24_OneTransactionInFlight ==
    /\ [](/\ cs_pin = 0 => pc \in TxPcs /\ tx # << >>
          /\ pc = "idle" => cs_pin = 1 /\ ~OpenSequence(bus_log))
    /\ [][/\ OperationStarts => pc = "idle" /\ cs_pin = 1 /\ bus_log' = << >>
          /\ WindowOpens /\ TxCmd(tx) \in ArmCmds
               => /\ bus_log # << >>
                  /\ LastWindow(bus_log).cmd = CMD_WRITE_ENABLE
                  /\ LastWindow(bus_log).ok
                  /\ chip1_wel
          /\ WindowOpens /\ TxCmd(tx) = CMD_READ_STATUS
               => /\ bus_log # << >>
                  /\ LastWindow(bus_log).ok
                  /\ LastWindow(bus_log).cmd \in (ArmCmds \cup {CMD_READ_STATUS})
          /\ WindowOpens /\ OpenSequence(bus_log)
               => IF LastWindow(bus_log).cmd = CMD_WRITE_ENABLE
                  THEN TxCmd(tx) \in ArmCmds
                  ELSE TxCmd(tx) = CMD_READ_STATUS]_vars

\* After flash1_init a program has returned 0 and then an erase has.
C24_Witness ==
    /\ Returned("lfs1_erase")
    /\ ret = LFS_ERR_OK
    /\ last_prog1.valid
    /\ last_prog1.ok
    /\ Len(bus_log) = 3

(***************************************************************************)
(* C25: the Flash1 chip-select is asserted only while flash1_transceive    *)
(* is executing: it is low only at a position inside a transceive, high    *)
(* whenever the driver is idle; a call asserts it once, which opens one    *)
(* window for the one command handed over, and the step that follows       *)
(* deasserts it, whether the transfer succeeded, spi_write failed or       *)
(* spi_read failed; no window opens otherwise.                             *)
(***************************************************************************)
RECURSIVE Windows(_)
Windows(log) ==
    IF log = << >> THEN 0
    ELSE log[Len(log)].n + Windows(SubSeq(log, 1, Len(log) - 1))

C25_ChipSelectWindows ==
    /\ [](/\ cs_pin \in {0, 1}
          /\ cs_pin = 0 => pc \in TxPcs
          /\ pc = "idle" => cs_pin = 1)
    /\ [][/\ cs_pin = 0 => cs_pin' = 1 /\ tx_ret \in SpiResults
          /\ WindowOpens
               => /\ Windows(bus_log') = Windows(bus_log) + 1
                  /\ LastWindow(bus_log').cmd = TxCmd(tx)
                  /\ LastWindow(bus_log').txlen = Len(tx)
                  /\ LastWindow(bus_log').spi_writes = 1
          /\ (bus_log' # bus_log /\ ~OperationStarts) => WindowOpens]_vars

\* A read has returned after spi_read failed; chip-select is high again.
C25_Witness ==
    /\ Returned("lfs1_read")
    /\ ret = LFS_ERR_IO
    /\ Len(bus_log) = 1
    /\ ~bus_log[1].ok
    /\ bus_log[1].spi_reads = 1
    /\ cs_pin = 1

(***************************************************************************)
(* C26: no File API call issues a library call again after it failed, and  *)
(* every failure of a library call is surfaced: a File API call in which a *)
(* library call failed returns a negative value.                           *)
(***************************************************************************)
ApiOps == HandleOps \cup {"get_file_size"}

NoReissueInFileApi ==
    \A k \in 1..Len(lfs_log) :
        lfs_log[k].res < 0 =>
            \A j \in (k + 1)..Len(lfs_log) : lfs_log[j].fn # lfs_log[k].fn

C26_NoRetryFailuresSurfaced ==
    /\ NoReissueInFileApi
    /\ (ApiReturned(ApiOps) /\ \E k \in 1..Len(lfs_log) : lfs_log[k].res < 0)
         => api_ret < 0

\* The same below the File API: a call of flash1_transceive makes one
\* spi_write and at most one spi_read, none after a failed spi_write; after a
\* failed window the driver issues no further window, but for flash1_init,
\* which goes on from a failed wake-up to the identify command; and every
\* callback in which a window failed returns LFS_ERR_IO.
NoRetryInDriver ==
    /\ \A k \in 1..Len(bus_log) :
          /\ bus_log[k].spi_writes = 1
          /\ bus_log[k].spi_reads <= 1
          /\ bus_log[k].spi_reads = 1 => bus_log[k].len > 0
          /\ (~bus_log[k].ok /\ k < Len(bus_log))
               => /\ call.op = "flash1_init"
                  /\ bus_log[k].cmd = CMD_RELEASE_PD
                  /\ bus_log[k + 1].cmd # bus_log[k].cmd
    /\ (pc = "idle" /\ call.op \in IoCallbacks
        /\ \E k \in 1..Len(bus_log) : ~bus_log[k].ok)
         => ret = LFS_ERR_IO

\* Whether a failed wake-up transaction makes flash1_init fail.
WakeupFailureSurfaced ==
    (Returned("flash1_init") /\ \E k \in 1..Len(bus_log) : ~bus_log[k].ok)
       => ret # 0

(***************************************************************************)
(* C27: flash1_init returns 0 exactly when both devices were ready (it     *)
(* got as far as its two transactions), the identify transaction           *)
(* succeeded and the chip's ID is the expected one or starts with 0xC2; it *)
(* returns -ENODEV when a device was not ready or the ID differs and       *)
(* starts with another byte, -EIO when the identify transaction failed;    *)
(* flash1.initialized is set by a call that returns 0 and changed by       *)
(* nothing else.                                                           *)
(***************************************************************************)
ExpectedId == chip1_id = addr_bytes(FLASH1_CHIP_JEDEC_ID)

Identified ==
    /\ Len(bus_log) = 2
    /\ bus_log[1].cmd = CMD_RELEASE_PD
    /\ bus_log[2].cmd = CMD_JEDEC_ID
    /\ bus_log[2].ok

Flash1InitReturns ==
    /\ call'.op = "flash1_init"
    /\ pc' = "idle"
    /\ calls_left' # calls_left \/ pc = "init_id"

C27_Flash1Init ==
    /\ [](Returned("flash1_init") =>
            /\ Len(bus_log) \in {0, 2}
            /\ ret = 0 <=> (Identified /\ (ExpectedId \/ chip1_id[1] = MACRONIX_ID))
            /\ bus_log = << >> => ret = -ENODEV
            /\ (Len(bus_log) = 2 /\ ~bus_log[2].ok) => ret = -EIO
            /\ (Identified /\ ~ExpectedId /\ chip1_id[1] # MACRONIX_ID) => ret = -ENODEV
            /\ ret = 0 => flash1_initialized)
    /\ [][/\ Flash1InitReturns /\ ret' = 0 => flash1_initialized'
          /\ Flash1InitReturns /\ ret' # 0 => flash1_initialized' = flash1_initialized
          /\ flash1_initialized' # flash1_initialized => Flash1InitReturns /\ ret' = 0]_vars

\* A Macronix part with another ID: initialised, with the warning only.
C27_Witness ==
    /\ Returned("flash1_init")
    /\ ret = 0
    /\ flash1_initialized
    /\ ~ExpectedId
    /\ chip1_id[1] = MACRONIX_ID
    /\ ~bus_log[1].ok

(***************************************************************************)
(* C28: the page programs of flash1_prog_data(addr, buf, size) start at    *)
(* addr, each begins where the one before ended, together they carry size  *)
(* bytes and put source byte i at address addr+i; there are as many of     *)
(* them as the range touches 256-byte pages, none for size 0, which        *)
(* succeeds without a transaction, and never more than that while the      *)
(* loop runs.                                                              *)
(***************************************************************************)
PagesTouched(a, sz) ==
    IF sz = 0 THEN 0
    ELSE ((a + sz - 1) \div FLASH_PAGE_SIZE) - (a \div FLASH_PAGE_SIZE) + 1

ProgAddr == call.block * FLASH_SECTOR_SIZE + call.off

C28_ProgDataSegments ==
    call.op = "lfs1_prog" =>
        /\ Cardinality(PPEntries(bus_log)) <= PagesTouched(ProgAddr, call.size)
        /\ \A k \in PPEntries(bus_log) :
              bus_log[k].addr = ProgAddr + SentBefore(bus_log, k)
        /\ (pc = "idle" /\ call.size = 0) => (drv_ret = 0 /\ bus_log = << >>)
        /\ (pc = "idle" /\ drv_ret = 0) =>
              /\ Cardinality(PPEntries(bus_log)) = PagesTouched(ProgAddr, call.size)
              /\ SentBefore(bus_log, Len(bus_log) + 1) = call.size
              /\ \A i \in 0..(call.size - 1) :
                    MemAt(chip1_mem, ProgAddr + i) =
                       ByteAnd(MemAt(mem_before[1], ProgAddr + i),
                               Buf(call.size)[i + 1])

\* The same for the build with the 16 MB chip alone.
ProgDataSegments16MB ==
    flash1_size_mb = FLASH1_SIZE_MB_DEFAULT => C28_ProgDataSegments

\* The same in every build, on the 24 address bits the command carries.
ProgDataSegments24Bit ==
    call.op = "lfs1_prog" =>
        /\ Cardinality(PPEntries(bus_log)) <= PagesTouched(ProgAddr, call.size)
        /\ \A k \in PPEntries(bus_log) :
              bus_log[k].addr = (ProgAddr + SentBefore(bus_log, k)) % ADDR24_MOD
        /\ (pc = "idle" /\ call.size = 0) => (drv_ret = 0 /\ bus_log = << >>)
        /\ (pc = "idle" /\ drv_ret = 0) =>
              /\ Cardinality(PPEntries(bus_log)) = PagesTouched(ProgAddr, call.size)
              /\ SentBefore(bus_log, Len(bus_log) + 1) = call.size
              /\ \A i \in 0..(call.size - 1) :
                    MemAt(chip1_mem, (ProgAddr + i) % ADDR24_MOD) =
                       ByteAnd(MemAt(mem_before[1], (ProgAddr + i) % ADDR24_MOD),
                               Buf(call.size)[i + 1])

\* Every turn of the loop leaves fewer bytes to program.
ProgLoopDecreases ==
    [][(pc = "prog_wait" /\ pc' = "prog_wren") =>
          (size' < size /\ size' > 0 /\ addr' > addr)]_vars

\* An empty program has returned; one of three segments has returned.
ProgEmptyReturned ==
    Returned("lfs1_prog") /\ call.size = 0 /\ drv_ret = 0

ProgThreeSegments16MB ==
    /\ Returned("lfs1_prog")
    /\ drv_ret = 0
    /\ flash1_size_mb = FLASH1_SIZE_MB_DEFAULT
    /\ call.block > 0
    /\ Cardinality(PPEntries(bus_log)) = 3

(***************************************************************************)
(* C29: every sector-erase command of lfs1_erase carries the address       *)
(* block*4096 of its block, lfs2_erase erases the 4096 bytes from          *)
(* block*4096, and when either callback has returned, with or without      *)
(* success, no byte of another block has changed on its device.            *)
(***************************************************************************)
OtherBlocksKept(mem, before, block) ==
    \A a \in DOMAIN before \cup DOMAIN mem :
        ~InSector(a, block) => MemAt(mem, a) = MemAt(before, a)

Erase1AtBlock ==
    \A k \in 1..Len(bus_log) :
        bus_log[k].cmd = CMD_SECTOR_ERASE =>
            /\ call.op = "lfs1_erase"
            /\ bus_log[k].addr = call.block * FLASH_SECTOR_SIZE

Erase2OnlyOwnBlock ==
    Returned("lfs2_erase") =>
        /\ OtherBlocksKept(flash2_mem, mem_before[2], call.block)
        /\ flash2_mem # mem_before[2] => ret = LFS_ERR_OK
        /\ ret = LFS_ERR_OK =>
              \A a \in DOMAIN flash2_mem : ~InSector(a, call.block)

C29_EraseOnlyOwnBlock ==
    /\ Erase1AtBlock
    /\ Returned("lfs1_erase") =>
          OtherBlocksKept(chip1_mem, mem_before[1], call.block)
    /\ Erase2OnlyOwnBlock

\* The same for the build with the 16 MB chip alone.
EraseOnlyOwnBlock16MB ==
    flash1_size_mb = FLASH1_SIZE_MB_DEFAULT => C29_EraseOnlyOwnBlock

\* In every build the address lfs1_erase sends is a multiple of 4096.
EraseSectorAligned ==
    \A k \in 1..Len(bus_log) :
        bus_log[k].cmd = CMD_SECTOR_ERASE =>
            bus_log[k].addr % FLASH_SECTOR_SIZE = 0

\* lfs2_erase has erased the last block of a Flash2 that held data in it.
Erase2LastBlockErased ==
    /\ Returned("lfs2_erase")
    /\ ret = LFS_ERR_OK
    /\ call.block > 0
    /\ flash2_mem # mem_before[2]

(***************************************************************************)
(* C30: nor_flash_system_init runs flash1_init, flash2_init, the mount of  *)
(* Flash1 and the mount of Flash2 in this order: a step is taken only      *)
(* after every step before it has succeeded and none after it has begun;   *)
(* after the first failing step no further step is taken, and it returns   *)
(* 0 only when both chip inits returned 0 and both instances are Mounted,  *)
(* and -EIO otherwise.                                                     *)
(***************************************************************************)
ChipInitsOk == chip_log = << 0, 0 >>

NoMountAttempted == \A l \in LfsInstances : mount_log[l] = << >>

SystemInitOrder ==
    /\ Len(chip_log) <= 2
    /\ Len(chip_log) = 2 => chip_log[1] = 0
    /\ ~ChipInitsOk => NoMountAttempted
    /\ mount_log[2] # << >> => (mount_log[1] # << >> /\ mount_state[1] = "Mounted")
    /\ mount_state[1] = "FatalInitFailure" => mount_log[2] = << >>

SystemInitStepsInOrder ==
    [][/\ (chip_log' # chip_log /\ chip_log' # << >>) =>
             (NoMountAttempted /\ mount_log' = mount_log)
       /\ (mount_log'[1] # mount_log[1] /\ mount_log'[1] # << >>) =>
             (ChipInitsOk /\ mount_log[2] = << >> /\ mount_log'[2] = << >>)
       /\ (mount_log'[2] # mount_log[2] /\ mount_log'[2] # << >>) =>
             (ChipInitsOk /\ mount_state[1] = "Mounted"
              /\ mount_log'[1] = mount_log[1])]_vars

SystemInitResult ==
    main_pc \notin InitPcs =>
        /\ init_ret \in {0, -EIO}
        /\ init_ret = 0 <=>
              /\ ChipInitsOk
              /\ \A l \in LfsInstances : mount_state[l] = "Mounted"

C30_SystemInitOrder ==
    /\ [](SystemInitOrder /\ SystemInitResult)
    /\ SystemInitStepsInOrder

\* The mount of Flash1 has failed for good: Flash2 was left alone.
C30_Witness ==
    /\ main_pc = "init_done"
    /\ init_ret = -EIO
    /\ ChipInitsOk
    /\ mount_state[1] = "FatalInitFailure"
    /\ mount_state[2] = "Unmounted"
    /\ mount_log[2] = << >>

\* Flash2 is being mounted after all three steps before it succeeded.
SystemInitAtLastStep ==
    /\ main_pc = "init_mount"
    /\ init_dev = 2
    /\ ChipInitsOk
    /\ mount_state[1] = "Mounted"

(***************************************************************************)
(* C31: whatever error the first lfs_mount of lfs_init_mount returned,     *)
(* LFS_ERR_IO as well as LFS_ERR_CORRUPT, the next library call on that    *)
(* instance is lfs_format, and nothing else happens to it in between.      *)
(***************************************************************************)
FirstMountFailed(l) == mount_log[l] # << >> /\ ~Ok(mount_log[l][1])

C31_FormatAfterAnyFailedMount ==
    \A l \in LfsInstances :
        FirstMountFailed(l) =>
            /\ mount_log[l][1].fn = "lfs_mount"
            /\ mount_log[l][1].res \in {LFS_ERR_IO, LFS_ERR_CORRUPT}
            /\ Len(mount_log[l]) = 1 =>
                  /\ init_dev = l
                  /\ main_pc = "init_format"
                  /\ mount_state[l] = "Formatting"
                  /\ disk[l] = disk_at_boot[l]
            /\ Len(mount_log[l]) >= 2 => mount_log[l][2].fn = "lfs_format"

\* A transport error on the mount of a chip that held a filesystem with a
\* file: the chip has been formatted all the same.
C31_Witness ==
    /\ FirstMountFailed(1)
    /\ mount_log[1][1].res = LFS_ERR_IO
    /\ disk_at_boot[1] = UsedFs
    /\ Len(mount_log[1]) >= 2
    /\ Ok(mount_log[1][2])
    /\ disk[1] = EmptyFs

\* The same path after a mount of a blank chip.
FormatAfterCorruptMount ==
    /\ FirstMountFailed(1)
    /\ mount_log[1][1].res = LFS_ERR_CORRUPT
    /\ Len(mount_log[1]) >= 2
    /\ Ok(mount_log[1][2])
    /\ disk[1] = EmptyFs

(***************************************************************************)
(* C32: what nor_flash_write_file returns is fixed by the results of       *)
(* lfs_file_open and lfs_file_write alone: the open's error when it        *)
(* failed, the write's error when that failed, and 0, not the byte count,  *)
(* when both succeeded, whatever lfs_file_close returned.                  *)
(***************************************************************************)
C32_WriteFileReturnValue ==
    ApiReturned(WriteOps) =>
        /\ lfs_log # << >>
        /\ lfs_log[1].fn = "lfs_file_open"
        /\ IF lfs_log[1].res < 0
           THEN /\ Len(lfs_log) = 1
                /\ api_ret = lfs_log[1].res
           ELSE /\ Len(lfs_log) = 3
                /\ lfs_log[2].fn = "lfs_file_write"
                /\ lfs_log[3].fn = "lfs_file_close"
                /\ lfs_log[2].res >= 0 => api_ret = 0
                /\ lfs_log[2].res < 0 => api_ret = lfs_log[2].res

\* Two bytes written, the close failed and nothing reached the chip: 0.
C32_Witness ==
    /\ ApiReturned({"write_file"})
    /\ Len(lfs_log) = 3
    /\ lfs_log[2].res = 2
    /\ fcall.len = 2
    /\ lfs_log[3].res = LFS_ERR_IO
    /\ api_ret = 0
    /\ FileOf(fcall) # RegFile(fcall.data)

(***************************************************************************)
(* C33: a nor_flash_read_struct of size bytes on a stored file that is     *)
(* longer than size, whose open and read did not fail in the library,      *)
(* returns 0 with the buffer holding the first size bytes of the file; it  *)
(* fails only with the error of a library call.                            *)
(***************************************************************************)
LongerThanRecord ==
    /\ FileOf(fcall).type = "reg"
    /\ Len(FileOf(fcall).data) > fcall.len

C33_ReadStructOfLongerFile ==
    (ApiReturned({"read_struct"}) /\ LongerThanRecord) =>
        /\ ReadFileReturned >= 0 =>
              /\ ReadFileReturned = fcall.len
              /\ api_ret = 0
              /\ buffer = SubSeq(FileOf(fcall).data, 1, fcall.len)
        /\ ReadFileReturned < 0 => api_ret = ReadFileReturned

\* One byte asked of the two-byte record the other processor wrote.
C33_Witness ==
    /\ ApiReturned({"read_struct"})
    /\ FileOf(fcall) = RegFile(<< 77, 88 >>)
    /\ fcall.len = 1
    /\ api_ret = 0
    /\ buffer = << 77 >>

LowSamples == {k \in 1..Len(wake.samples) : wake.samples[k] = 0}

(***************************************************************************)
(* C34: the step that runs wakeup_pin_callback disables the interrupt of   *)
(* P1.13 and sets sleep_requested and changes nothing else; it is taken at *)
(* most once.  After start-up main enters System OFF only by way of        *)
(* enter_deep_sleep, called from the main loop, which is reached only from *)
(* between File API calls after nor_flash_system_init returned 0: no step  *)
(* taken inside nor_flash_system_init or a File API call ends in System    *)
(* OFF.  When sleep_requested is set and main is in the main loop, System  *)
(* OFF follows, and no step leaves System OFF.                             *)
(***************************************************************************)
FlashOpInProgress == main_pc \in (InitPcs \cup OpenPcs \cup {"init_done"})

CallbackStep == wake'.callback_runs # wake.callback_runs

CallbackOnlySetsFlag ==
    [][CallbackStep =>
          /\ wake' = [wake EXCEPT !.int = "disabled", !.pending = FALSE,
                                  !.sleep_requested = TRUE,
                                  !.callback_runs = @ + 1]
          /\ UNCHANGED << main_pc, block_devices, demo >>]_vars

SleepOnlyFromMainLoop ==
    [][/\ (main_pc' = "system_off" /\ main_pc # "system_off") =>
             main_pc \in {"wake_check", "deep_sleep"}
       /\ (main_pc' = "deep_sleep" /\ main_pc # "deep_sleep") =>
             (main_pc = "main_loop" /\ wake.sleep_requested)
       /\ (main_pc' = "main_loop" /\ main_pc # "main_loop") =>
             main_pc = "running"
       /\ FlashOpInProgress => main_pc' # "system_off"
       /\ main_pc = "system_off" => main_pc' = "system_off"]_vars

SleepStateOK ==
    /\ wake.callback_runs <= 1
    /\ wake.sleep_requested <=> wake.callback_runs = 1
    /\ wake.sleep_requested => (wake.int = "disabled" /\ ~wake.pending)
    /\ main_pc \in {"main_loop", "deep_sleep"} =>
          /\ init_ret = 0
          /\ chip_log = << 0, 0 >>
          /\ file = NoFile
          /\ open_handles = [l \in LfsInstances |-> 0]
    /\ (main_pc = "system_off" /\ LowSamples = {}) =>
          /\ wake.sleep_requested
          /\ wake.mcu_active = 0
          /\ wake.sense = "high"
          /\ file = NoFile

SleepFollowsRequest ==
    (wake.sleep_requested /\ main_pc = "main_loop") ~> (main_pc = "system_off")

C34_SleepOnlyFromMainLoop ==
    /\ []SleepStateOK
    /\ CallbackOnlySetsFlag
    /\ SleepOnlyFromMainLoop
    /\ SleepFollowsRequest

\* The edge came while nor_flash_write_file had its file open: the flag is
\* set, the close is still to come.
C34_Witness ==
    /\ main_pc = "write_file_close"
    /\ wake.sleep_requested
    /\ wake.callback_runs = 1
    /\ wake.pin = 0
    /\ file # NoFile

\* System OFF by way of the main loop, after a File API call.
SleptAfterDemo ==
    /\ main_pc = "system_off"
    /\ LowSamples = {}
    /\ wake.sleep_requested
    /\ fcall.op = "write_file"
    /\ api_ret = 0

\* The main loop runs with P1.13 low and no request: the pin fell before
\* the interrupt was armed.
LoopWithPinLowUnnoticed ==
    /\ main_pc = "main_loop"
    /\ wake.pin = 0
    /\ ~wake.sleep_requested
    /\ ~wake.pending

(***************************************************************************)
(* C35: main samples P1.13 at most 10 times; at the first sample that      *)
(* reads low it drives P1.14 low, arms P1.13 as wake-up source and is in   *)
(* System OFF for good, with no chip init, mount or File API call made and *)
(* no interrupt configured; main is past the check, and anything of the    *)
(* flash demo has happened, only after 10 samples that all read high.      *)
(***************************************************************************)
FlashTouched ==
    \/ chip_log # << >>
    \/ \E l \in LfsInstances : mount_log[l] # << >> \/ mount_state[l] # "Unmounted"
    \/ lfs_log # << >>
    \/ fcall # NoFCall
    \/ flash1_initialized
    \/ disk # disk_at_boot

C35_StartupWakeCheck ==
    /\ Len(wake.samples) <= WAKE_CHECK_SAMPLES
    /\ LowSamples # {} =>
          /\ LowSamples = {Len(wake.samples)}
          /\ main_pc = "system_off"
          /\ wake.mcu_active = 0
          /\ wake.sense = "high"
          /\ wake.int = "disabled"
          /\ ~wake.sleep_requested
          /\ ~FlashTouched
    /\ (FlashTouched \/ main_pc \notin {"reset", "wake_check", "system_off"}) =>
          wake.samples = [k \in 1..WAKE_CHECK_SAMPLES |-> 1]
    /\ main_pc = "wake_check" => Len(wake.samples) < WAKE_CHECK_SAMPLES

\* The third sample read low; P1.13 is high again and nothing moves.
C35_Witness ==
    /\ wake.samples = << 1, 1, 0 >>
    /\ main_pc = "system_off"
    /\ wake.mcu_active = 0
    /\ wake.sense = "high"
    /\ wake.pin = 1

\* Only the last of the ten samples read low.
WakeCheckLowAtLastSample ==
    /\ Len(wake.samples) = WAKE_CHECK_SAMPLES
    /\ LowSamples = {WAKE_CHECK_SAMPLES}
    /\ main_pc = "system_off"

\* Ten high samples: nor_flash_system_init has been called.
WakeCheckPassed ==
    /\ wake.samples = [k \in 1..WAKE_CHECK_SAMPLES |-> 1]
    /\ chip_log # << >>

====
